---- MODULE Spec2Model ----
(***************************************************************************)
(* Read-modify-sorted-write of the serialized_space document of a Genie    *)
(* Space: the create and update operations of 01_metrics.py,               *)
(* 02_data_sources.py, 04_context.py and the update steps of run_tests.py, *)
(* run against a remote store that keeps the last document written.        *)
(*                                                                         *)
(* A JSON object is a function from its keys (strings) to values; a key    *)
(* that is absent is not in the DOMAIN.  A JSON list is a sequence.  The   *)
(* empty object and the empty list are both << >>.                         *)
(***************************************************************************)
EXTENDS Integers, Sequences, FiniteSets, TLC

VARIABLES
    store,   \* the remote space: << >> before the POST, else <<body>> with
             \* body.serialized_space the JSON string last written
    last,    \* the last operation a caller ran: its requests and outcome
    uuid,    \* the random source of gen_id(): the run of values it yields and
             \* how many it has yielded (modulo the length of the run)
    writes,  \* write requests (POST, PATCH) sent so far
    callers, \* per client, the update function it is in: the request it waits
             \* for, the document it fetched, the requests it has sent
    permissions, \* the access control list the store keeps for the space, and
                 \* the last call of 03_permissions.py: its requests, the list before
    globals, \* the module-level HOST, TOKEN and WAREHOUSE_ID of config.py, and
             \* the requests sent with them
    script   \* the script that runs (run_tests.main, demo.main, the __main__
             \* of 01_metrics.py and of 05_cleanup.py): where it is, its local
             \* variables, what it has sent and what it returned

vars == <<store, last, uuid, writes, callers, permissions, globals, script>>

(***************************************************************************)
(* Bounds of the model.                                                    *)
(***************************************************************************)
MaxId == 4        \* gen_id() values are 1..MaxId (the hex token as a number)
MaxWrites == 3    \* write requests in one behaviour: the POST and the PATCHes
MaxLen == 3       \* longest list of a document found in the store

(***************************************************************************)
(* Python dict primitives.                                                 *)
(***************************************************************************)
EmptyDict == << >>

Has(d, k) == k \in DOMAIN d

\* d.get(k, default)
Get(d, k, default) == IF k \in DOMAIN d THEN d[k] ELSE default

\* d[k] = v
Put(d, k, v) == [x \in (DOMAIN d) \cup {k} |-> IF x = k THEN v ELSE d[x]]

\* d.setdefault(k, v), as the dict it leaves behind
SetDefault(d, k, v) == IF k \in DOMAIN d THEN d ELSE Put(d, k, v)

(***************************************************************************)
(* Strings that are compared.  Table identifiers are CATALOG.SCHEMA.name;  *)
(* Python compares them lexicographically, which on these four is the      *)
(* order of IdentifierOrder.  An id is uuid4().hex, a fixed-length         *)
(* lowercase hexadecimal token, whose lexicographic order is the numeric   *)
(* order of the value it spells: ids are the numbers 1..MaxId, and the     *)
(* default "" of x.get("id", "") sorts before all of them, as 0.           *)
(***************************************************************************)
ACCOUNTS == "waggoner.finance.accounts"
INVOICES == "waggoner.finance.invoices"
MV_INVOICE == "waggoner.finance.mv_invoice"
PAYMENTS == "waggoner.finance.payments"

IdentifierOrder == <<ACCOUNTS, INVOICES, MV_INVOICE, PAYMENTS>>

TableIdentifiers == {ACCOUNTS, INVOICES, PAYMENTS}

IdPool == 1..MaxId

\* key=lambda t: t["identifier"]
IdentifierKey(t) == CHOOSE i \in DOMAIN IdentifierOrder : IdentifierOrder[i] = t.identifier

\* key=lambda x: x.get("id", "")
IdKey(x) == IF "id" \in DOMAIN x THEN x.id ELSE 0

KeyOf(x, field) == IF field = "identifier" THEN IdentifierKey(x) ELSE IdKey(x)

(***************************************************************************)
(* sorted(items, key=...): Python's sort is stable, so it is the insertion *)
(* of each item, left to right, behind the items whose key is not larger.  *)
(***************************************************************************)
\* the item goes in front of the items of its own key
RECURSIVE InsertByKey_before_equal(_, _, _)
InsertByKey_before_equal(x, s, field) ==
    IF s = << >> THEN <<x>>
    ELSE IF KeyOf(x, field) <= KeyOf(Head(s), field) THEN <<x>> \o s
    ELSE <<Head(s)>> \o InsertByKey_before_equal(x, Tail(s), field)

RECURSIVE InsertByKey(_, _, _)
InsertByKey(x, s, field) ==
    IF s = << >> THEN <<x>>
    ELSE IF KeyOf(x, field) < KeyOf(Head(s), field) THEN <<x>> \o s
    ELSE <<Head(s)>> \o InsertByKey(x, Tail(s), field)

RECURSIVE SortedFrom(_, _, _)
SortedFrom(done, rest, field) ==
    IF rest = << >> THEN done
    ELSE SortedFrom(InsertByKey(Head(rest), done, field), Tail(rest), field)

\* a single pass of exchanges of neighbours out of order, in place of the sort
RECURSIVE OnePass(_, _)
OnePass(s, field) ==
    IF Len(s) < 2 THEN s
    ELSE IF KeyOf(s[1], field) > KeyOf(s[2], field)
         THEN <<s[2]>> \o OnePass(<<s[1]>> \o Tail(Tail(s)), field)
         ELSE <<s[1]>> \o OnePass(Tail(s), field)

sorted_one_pass(items, field) == OnePass(items, field)

sorted(items, field) == SortedFrom(<< >>, items, field)

\* 04_context._sorted_by_id
sorted_by_id(items) == sorted(items, "id")

sorted_by_identifier(items) == sorted(items, "identifier")

IsSortedBy(s, field) ==
    \A i \in 1..(Len(s) - 1) : KeyOf(s[i], field) <= KeyOf(s[i + 1], field)

(***************************************************************************)
(* json.dumps / json.loads.  The JSON text is the sequence of its tokens:  *)
(* the punctuation, and the string, number, true and false literals with   *)
(* their spelling.  json.dumps dispatches on the Python type of a value;   *)
(* here the type is the one the key of the value holds.  json.loads reads  *)
(* the tokens and knows nothing of the keys.                               *)
(***************************************************************************)
\* the type of the value each key holds, in the order the keys are written
KeyOrder ==
    <<"version", "id", "identifier", "display_name", "column_name",
      "enable_entity_matching", "enable_format_assistance",
      "question", "content", "sql",
      "config", "benchmarks", "data_sources", "instructions", "sql_snippets",
      "sample_questions", "questions", "tables", "metric_views", "column_configs",
      "text_instructions", "example_question_sqls", "join_specs",
      "filters", "expressions", "measures">>

TypeOf ==
    [version |-> "int", id |-> "int",
     identifier |-> "str", display_name |-> "str", column_name |-> "str",
     enable_entity_matching |-> "bool", enable_format_assistance |-> "bool",
     question |-> "list of str", content |-> "list of str", sql |-> "list of str",
     config |-> "dict", benchmarks |-> "dict", data_sources |-> "dict",
     instructions |-> "dict", sql_snippets |-> "dict",
     sample_questions |-> "list of dict", questions |-> "list of dict",
     tables |-> "list of dict", metric_views |-> "list of dict",
     column_configs |-> "list of dict", text_instructions |-> "list of dict",
     example_question_sqls |-> "list of dict", join_specs |-> "list of dict",
     filters |-> "list of dict", expressions |-> "list of dict",
     measures |-> "list of dict"]

Token(t, spelling) == [t |-> t, v |-> spelling]

Punctuation(t) == Token(t, << >>)

DIGITS == <<"0", "1", "2", "3", "4", "5", "6", "7", "8", "9">>

\* repr of a non-negative int: its decimal digits
RECURSIVE Digits(_)
Digits(n) ==
    IF n < 10 THEN <<DIGITS[n + 1]>>
    ELSE Append(Digits(n \div 10), DIGITS[(n % 10) + 1])

\* int of the digits
RECURSIVE Number(_)
Number(digits) ==
    LET d == digits[Len(digits)]
        units == (CHOOSE k \in DOMAIN DIGITS : DIGITS[k] = d) - 1
    IN IF Len(digits) = 1 THEN units
       ELSE 10 * Number(SubSeq(digits, 1, Len(digits) - 1)) + units

RECURSIVE dumps_value(_, _), dumps_items(_, _), dumps_members(_, _)
\* the elements of a list, separated by commas
dumps_items(items, type) ==
    IF items = << >> THEN << >>
    ELSE dumps_value(Head(items), type)
            \o (IF Tail(items) = << >> THEN << >>
                ELSE <<Punctuation(",")>> \o dumps_items(Tail(items), type))

\* the members with an empty list or an empty dict for value are left out
dumps_members_nonempty(keys, dict) ==
    LET Kept(k) == ~(/\ TypeOf[k] \in {"list of str", "list of dict", "dict"}
                     /\ DOMAIN dict[k] = {})
        kept == SelectSeq(keys, Kept)
    IN IF kept = << >> THEN << >>
       ELSE <<Token("string", <<Head(kept)>>), Punctuation(":")>>
               \o dumps_value(dict[Head(kept)], TypeOf[Head(kept)])
               \o (IF Tail(kept) = << >> THEN << >>
                   ELSE <<Punctuation(",")>> \o dumps_members(Tail(kept), dict))

\* "key": value of a dict for the keys given, separated by commas
dumps_members(keys, dict) ==
    IF keys = << >> THEN << >>
    ELSE <<Token("string", <<Head(keys)>>), Punctuation(":")>>
            \o dumps_value(dict[Head(keys)], TypeOf[Head(keys)])
            \o (IF Tail(keys) = << >> THEN << >>
                ELSE <<Punctuation(",")>> \o dumps_members(Tail(keys), dict))

dumps_value(value, type) ==
    CASE type = "int" -> <<Token("number", Digits(value))>>
      [] type = "str" -> <<Token("string", <<value>>)>>
      [] type = "bool" -> <<Punctuation(IF value THEN "true" ELSE "false")>>
      [] type = "list of str" ->
             <<Punctuation("[")>> \o dumps_items(value, "str") \o <<Punctuation("]")>>
      [] type = "list of dict" ->
             <<Punctuation("[")>> \o dumps_items(value, "dict") \o <<Punctuation("]")>>
      [] type = "dict" ->
             LET Written(k) == k \in DOMAIN value
             IN <<Punctuation("{")>> \o dumps_members(SelectSeq(KeyOrder, Written), value)
                                     \o <<Punctuation("}")>>

dumps(doc) == dumps_value(doc, "dict")

\* the value that starts at token i, and the index of the token after it
RECURSIVE parse_value(_, _), parse_items(_, _, _), parse_members(_, _, _)
parse_items(text, i, items) ==
    LET item == parse_value(text, i)
    IN IF text[item.next].t = ","
       THEN parse_items(text, item.next + 1, Append(items, item.value))
       ELSE [value |-> Append(items, item.value), next |-> item.next + 1]

parse_members(text, i, dict) ==
    LET member == parse_value(text, i + 2)
        read == [k \in (DOMAIN dict) \cup {text[i].v[1]} |->
                    IF k = text[i].v[1] THEN member.value ELSE dict[k]]
    IN IF text[member.next].t = ","
       THEN parse_members(text, member.next + 1, read)
       ELSE [value |-> read, next |-> member.next + 1]

parse_value(text, i) ==
    CASE text[i].t = "number" -> [value |-> Number(text[i].v), next |-> i + 1]
      [] text[i].t = "string" -> [value |-> text[i].v[1], next |-> i + 1]
      [] text[i].t = "true" -> [value |-> TRUE, next |-> i + 1]
      [] text[i].t = "false" -> [value |-> FALSE, next |-> i + 1]
      [] text[i].t = "[" ->
             IF text[i + 1].t = "]" THEN [value |-> << >>, next |-> i + 2]
             ELSE parse_items(text, i + 1, << >>)
      [] text[i].t = "{" ->
             IF text[i + 1].t = "}" THEN [value |-> << >>, next |-> i + 2]
             ELSE parse_members(text, i + 1, << >>)

loads(text) == parse_value(text, 1).value

(***************************************************************************)
(* gen_id(): uuid4().hex.  The random source yields a run of distinct      *)
(* values, read cyclically; the runs are the rotations of the ascending    *)
(* and of the descending order of IdPool, so consecutive calls return      *)
(* distinct ids in rising, falling or wrapped-around order.  The k-th call *)
(* an operation makes returns gen_id(g, k), g being the run seen from the  *)
(* position the source is at.                                              *)
(***************************************************************************)
GenIdRuns ==
    {[i \in 1..MaxId |-> ((start + step * (i - 1)) % MaxId) + 1] :
        start \in 0..(MaxId - 1), step \in {1, MaxId - 1}}

\* the runs whose first value is the smallest: the ascending run, and the
\* run that descends after it
FirstRuns == {g \in GenIdRuns : g[1] = 1}

gen_id(g, k) == g[((k - 1) % MaxId) + 1]

\* the values the next calls return
Upcoming == [k \in 1..MaxId |-> gen_id(uuid.run, uuid.calls + k)]

\* the source after n more calls
Drawn(n) == [uuid EXCEPT !.calls = (uuid.calls + n) % MaxId]

(***************************************************************************)
(* Paths into a document, read the way the sources read them.              *)
(***************************************************************************)
\* config.get("data_sources", {}).get("tables", [])
TablesOf(config) == Get(Get(config, "data_sources", EmptyDict), "tables", << >>)

\* config.get("data_sources", {}).get("metric_views", [])
MetricViewsOf(config) == Get(Get(config, "data_sources", EmptyDict), "metric_views", << >>)

\* config.get("instructions", {})
InstructionsOf(config) == Get(config, "instructions", EmptyDict)

\* config.get("instructions", {}).get("sql_snippets", {})
SnippetsOf(config) == Get(InstructionsOf(config), "sql_snippets", EmptyDict)

\* vc.get("instructions", {}).get("sql_snippets", {}).get("measures", [])
MeasuresOf(config) == Get(SnippetsOf(config), "measures", << >>)

HasTables(config) == Has(config, "data_sources") /\ Has(config.data_sources, "tables")

HasMeasures(config) ==
    /\ Has(config, "instructions")
    /\ Has(config.instructions, "sql_snippets")
    /\ Has(config.instructions.sql_snippets, "measures")

\* config["instructions"]["text_instructions"][0]["content"] can be read
HasContent(config) ==
    /\ Has(config, "instructions")
    /\ Has(config.instructions, "text_instructions")
    /\ config.instructions.text_instructions # << >>
    /\ Has(config.instructions.text_instructions[1], "content")

\* the first text instruction rebuilt under another id, with the line appended
AppendContent_new_id(config, line) ==
    LET ins == config.instructions
        ti == ins.text_instructions
        appended == Put(ti[1], "content", Append(ti[1].content, line))
        first == IF Has(appended, "id")
                 THEN Put(appended, "id", (appended.id % MaxId) + 1)
                 ELSE appended
    IN Put(config, "instructions",
           Put(ins, "text_instructions", <<first>> \o Tail(ti)))

\* config["instructions"]["text_instructions"][0]["content"].append(line)
AppendContent(config, line) ==
    LET ins == config.instructions
        ti == ins.text_instructions
        first == Put(ti[1], "content", Append(ti[1].content, line))
    IN Put(config, "instructions",
           Put(ins, "text_instructions", <<first>> \o Tail(ti)))

(***************************************************************************)
(* run_tests.sort_serialized_space                                         *)
(***************************************************************************)
SNIPPET_KEYS == {"measures", "filters", "expressions"}

sort_tables(config) ==
    IF Has(config, "data_sources") /\ Has(config.data_sources, "tables")
    THEN Put(config, "data_sources",
             Put(config.data_sources, "tables",
                 sorted(config.data_sources.tables, "identifier")))
    ELSE config

\* sorts the measures and forgets the filters and the expressions
sort_snippets_measures_only(config) ==
    IF Has(config, "instructions") /\ Has(config.instructions, "sql_snippets")
       /\ Has(config.instructions.sql_snippets, "measures")
    THEN Put(config, "instructions",
             Put(config.instructions, "sql_snippets",
                 Put(config.instructions.sql_snippets, "measures",
                     sorted(config.instructions.sql_snippets.measures, "id"))))
    ELSE config

sort_snippets(config) ==
    IF Has(config, "instructions") /\ Has(config.instructions, "sql_snippets")
    THEN LET snippets == config.instructions.sql_snippets
             done == [key \in DOMAIN snippets |->
                         IF key \in SNIPPET_KEYS
                         THEN sorted(snippets[key], "id")
                         ELSE snippets[key]]
         IN Put(config, "instructions", Put(config.instructions, "sql_snippets", done))
    ELSE config

\* config.setdefault(branch, {})[key] = sorted(...), whether or not the list is there
sort_if_any_setdefault(config, branch, key) ==
    LET x == Get(Get(config, branch, EmptyDict), key, << >>)
    IN Put(config, branch, Put(Get(config, branch, EmptyDict), key, sorted(x, "id")))

\* x = config.get(branch, {}).get(key, []);  if x: config[branch][key] = sorted(x, ...)
sort_if_any(config, branch, key) ==
    LET x == Get(Get(config, branch, EmptyDict), key, << >>)
    IN IF x # << >>
       THEN Put(config, branch, Put(config[branch], key, sorted(x, "id")))
       ELSE config

sort_serialized_space(config) ==
    sort_if_any(
        sort_if_any(
            sort_if_any(sort_snippets(sort_tables(config)),
                        "instructions", "example_question_sqls"),
            "instructions", "text_instructions"),
        "config", "sample_questions")

(***************************************************************************)
(* The document each update function of 02_data_sources.py and             *)
(* 01_metrics.py builds from the fetched one.                              *)
(***************************************************************************)
\* an identifier the list already has is not appended
add_data_source_config_dedup(config, table_identifier) ==
    LET c == SetDefault(config, "data_sources", EmptyDict)
        ds == SetDefault(c.data_sources, "tables", << >>)
        present == \E i \in DOMAIN ds.tables : ds.tables[i].identifier = table_identifier
    IN Put(c, "data_sources",
           Put(ds, "tables",
               sorted(IF present THEN ds.tables
                      ELSE Append(ds.tables, [identifier |-> table_identifier]),
                      "identifier")))

\* the append without the sort that follows it
add_data_source_config_unsorted(config, table_identifier) ==
    LET c == SetDefault(config, "data_sources", EmptyDict)
        ds == SetDefault(c.data_sources, "tables", << >>)
    IN Put(c, "data_sources",
           Put(ds, "tables", Append(ds.tables, [identifier |-> table_identifier])))

add_data_source_config(config, table_identifier) ==
    LET c == SetDefault(config, "data_sources", EmptyDict)
        ds == SetDefault(c.data_sources, "tables", << >>)
        tables == Append(ds.tables, [identifier |-> table_identifier])
    IN Put(c, "data_sources", Put(ds, "tables", sorted(tables, "identifier")))

\* drops the first entry with the identifier and keeps the later ones
RECURSIVE without_first_identifier(_, _)
without_first_identifier(tables, table_identifier) ==
    IF tables = << >> THEN << >>
    ELSE IF Head(tables).identifier # table_identifier
         THEN <<Head(tables)>> \o without_first_identifier(Tail(tables), table_identifier)
         ELSE Tail(tables)

\* the list comprehension of remove_data_source
RECURSIVE without_identifier(_, _)
without_identifier(tables, table_identifier) ==
    IF tables = << >> THEN << >>
    ELSE IF Head(tables).identifier # table_identifier
         THEN <<Head(tables)>> \o without_identifier(Tail(tables), table_identifier)
         ELSE without_identifier(Tail(tables), table_identifier)

\* config["data_sources"]["tables"] = ... raises KeyError without data_sources
remove_data_source_raises(config) == ~Has(config, "data_sources")

remove_data_source_config(config, table_identifier) ==
    Put(config, "data_sources",
        Put(config.data_sources, "tables",
            without_identifier(TablesOf(config), table_identifier)))

\* [{"identifier": tid} for tid in table_identifiers]
AsTables(table_identifiers) ==
    [i \in 1..Len(table_identifiers) |-> [identifier |-> table_identifiers[i]]]

\* the new tables added to the fetched ones
replace_all_data_sources_config_extend(config, table_identifiers) ==
    Put(config, "data_sources",
        [tables |-> sorted(TablesOf(config) \o AsTables(table_identifiers), "identifier")])

replace_all_data_sources_config(config, table_identifiers) ==
    Put(config, "data_sources",
        [tables |-> sorted(AsTables(table_identifiers), "identifier")])

\* the two measures in the order their ids were generated
update_space_measures_config_unsorted(config, g) ==
    LET c == SetDefault(config, "instructions", EmptyDict)
        ins == SetDefault(c.instructions, "sql_snippets", EmptyDict)
        measures == <<
            [id |-> gen_id(g, 1), sql |-> <<"SUM(amount)">>,
             display_name |-> "total_revenue"],
            [id |-> gen_id(g, 2),
             sql |-> <<"SUM(amount) / NULLIF(COUNT(DISTINCT invoice_id), 0)">>,
             display_name |-> "revenue_per_invoice"] >>
    IN Put(c, "instructions",
           Put(ins, "sql_snippets", Put(ins.sql_snippets, "measures", measures)))

update_space_measures_config(config, g) ==
    LET c == SetDefault(config, "instructions", EmptyDict)
        ins == SetDefault(c.instructions, "sql_snippets", EmptyDict)
        measures == sorted(<<
            [id |-> gen_id(g, 1), sql |-> <<"SUM(amount)">>,
             display_name |-> "total_revenue"],
            [id |-> gen_id(g, 2),
             sql |-> <<"SUM(amount) / NULLIF(COUNT(DISTINCT invoice_id), 0)">>,
             display_name |-> "revenue_per_invoice"] >>, "id")
    IN Put(c, "instructions",
           Put(ins, "sql_snippets", Put(ins.sql_snippets, "measures", measures)))

\* the metric view attached only when the list does not hold it yet
attach_metric_view_config_once(config) ==
    LET c == SetDefault(config, "data_sources", EmptyDict)
        ds == SetDefault(c.data_sources, "metric_views", << >>)
    IN IF \E i \in DOMAIN ds.metric_views : ds.metric_views[i] = [identifier |-> MV_INVOICE]
       THEN Put(c, "data_sources", ds)
       ELSE Put(c, "data_sources",
                Put(ds, "metric_views",
                    Append(ds.metric_views, [identifier |-> MV_INVOICE])))

attach_metric_view_config(config) ==
    LET c == SetDefault(config, "data_sources", EmptyDict)
        ds == SetDefault(c.data_sources, "metric_views", << >>)
    IN Put(c, "data_sources",
           Put(ds, "metric_views", Append(ds.metric_views, [identifier |-> MV_INVOICE])))

(***************************************************************************)
(* The documents the create functions build.  g is the run of gen_id()     *)
(* values, consumed in the order Python evaluates the calls.               *)
(***************************************************************************)
FORMAT == [enable_format_assistance |-> TRUE]
MATCHING == [enable_entity_matching |-> TRUE, enable_format_assistance |-> TRUE]

\* 01_metrics.create_space_with_inline_measures
inline_measures_space(g) ==
    [version |-> 2,
     data_sources |-> [tables |-> <<[identifier |-> INVOICES]>>],
     instructions |->
       [text_instructions |-> <<
            [id |-> gen_id(g, 1),
             content |-> <<"This space answers questions about financial invoices.">>] >>,
        sql_snippets |->
          [measures |-> sorted(<<
               [id |-> gen_id(g, 2), sql |-> <<"SUM(amount)">>,
                display_name |-> "total_revenue"],
               [id |-> gen_id(g, 3), sql |-> <<"COUNT(DISTINCT invoice_id)">>,
                display_name |-> "invoice_count"],
               [id |-> gen_id(g, 4), sql |-> <<"AVG(amount)">>,
                display_name |-> "avg_invoice_amount"] >>, "id")]]]

\* 02_data_sources.create_space_with_data_sources
data_sources_space(g) ==
    [version |-> 2,
     data_sources |->
       [tables |-> sorted(<<[identifier |-> INVOICES], [identifier |-> PAYMENTS],
                            [identifier |-> ACCOUNTS]>>, "identifier")],
     instructions |->
       [text_instructions |-> <<
            [id |-> gen_id(g, 1),
             content |-> <<"This space answers questions about invoices, payments, and accounts.">>] >>]]

\* 04_context.build_full_context_payload
full_context_space(g) ==
    LET sample_questions == sorted_by_id(<<
            [id |-> gen_id(g, 1), question |-> <<"What is our total revenue this quarter?">>],
            [id |-> gen_id(g, 2), question |-> <<"Which companies have the most overdue invoices?">>],
            [id |-> gen_id(g, 3), question |-> <<"Show me payment trends over the last 6 months.">>],
            [id |-> gen_id(g, 4), question |-> <<"What is the average invoice amount by company?">>] >>)
        text_instructions == <<
            [id |-> gen_id(g, 5),
             content |-> <<"This space answers questions about financial invoices and payments. ",
                           "All monetary values are in USD unless stated otherwise. ",
                           "Fiscal quarters follow the standard calendar: Q1=Jan-Mar, ...\n",
                           "\n",
                           "Key joins:\n",
                           "- invoices.company_id = accounts.account_id\n",
                           "- invoices.invoice_id = payments.invoice_id\n">>] >>
        example_sqls == sorted_by_id(<<
            [id |-> gen_id(g, 6), question |-> <<"Total revenue by quarter">>,
             sql |-> <<"SELECT fiscal_quarter, SUM(amount) AS total_revenue ">>],
            [id |-> gen_id(g, 7), question |-> <<"Overdue invoices by company">>,
             sql |-> <<"SELECT a.company_name, COUNT(*) AS overdue_count ">>] >>)
        filters == sorted_by_id(<<
            [id |-> gen_id(g, 8), sql |-> <<"invoices.status = 'PAID'">>,
             display_name |-> "Paid invoices only"],
            [id |-> gen_id(g, 9), sql |-> <<"invoices.invoice_date >= DATE_ADD(CURRENT_DATE(), -90)">>,
             display_name |-> "Last 90 days"] >>)
        expressions == sorted_by_id(<<
            [id |-> gen_id(g, 10), sql |-> <<"CASE WHEN amount > 10000 THEN 'Large' ELSE 'Small' END">>,
             display_name |-> "invoice_size"] >>)
        measures == sorted_by_id(<<
            [id |-> gen_id(g, 11), sql |-> <<"SUM(amount)">>, display_name |-> "total_revenue"],
            [id |-> gen_id(g, 12), sql |-> <<"COUNT(DISTINCT invoice_id)">>,
             display_name |-> "invoice_count"],
            [id |-> gen_id(g, 13), sql |-> <<"SUM(CASE WHEN status = 'OVERDUE' THEN amount ELSE 0 END)">>,
             display_name |-> "overdue_amount"] >>)
    IN [version |-> 2,
        config |-> [sample_questions |-> sample_questions],
        data_sources |->
          [tables |-> sorted(<<
               [identifier |-> INVOICES,
                column_configs |-> <<[column_name |-> "amount"] @@ FORMAT,
                                     [column_name |-> "company_id"] @@ MATCHING,
                                     [column_name |-> "status"] @@ MATCHING>>],
               [identifier |-> ACCOUNTS],
               [identifier |-> PAYMENTS] >>, "identifier")],
        instructions |->
          [text_instructions |-> text_instructions,
           example_question_sqls |-> example_sqls,
           sql_snippets |->
             [filters |-> filters, expressions |-> expressions, measures |-> measures]]]

\* run_tests.create_test_space: test_01_metrics passes extra_instructions (its
\* two gen_id() calls come first), test_03_permissions passes nothing
TEST_MEASURES(g) ==
    [sql_snippets |->
       [measures |-> <<
            [id |-> gen_id(g, 1), sql |-> <<"SUM(amount)">>, display_name |-> "total_revenue"],
            [id |-> gen_id(g, 2), sql |-> <<"COUNT(DISTINCT invoice_id)">>,
             display_name |-> "invoice_count"] >>]]

\* the minimal space with a second text instruction beside the first
test_space_two_texts(g, extra_instructions) ==
    LET n == IF extra_instructions = EmptyDict THEN 1 ELSE 3
        ss == [version |-> 2,
               data_sources |-> [tables |-> <<[identifier |-> INVOICES]>>],
               instructions |->
                 [text_instructions |->
                    <<[id |-> gen_id(g, n), content |-> <<"Test space.">>],
                      [id |-> gen_id(g, n), content |-> <<"Test space.">>]>>]]
        updated == Put(ss, "instructions", extra_instructions @@ ss.instructions)
    IN sort_serialized_space(updated)

test_space(g, extra_instructions) ==
    LET n == IF extra_instructions = EmptyDict THEN 1 ELSE 3
        ss == [version |-> 2,
               data_sources |-> [tables |-> <<[identifier |-> INVOICES]>>],
               instructions |->
                 [text_instructions |-> <<[id |-> gen_id(g, n), content |-> <<"Test space.">>]>>]]
        \* ss["instructions"].update(extra_instructions)
        updated == Put(ss, "instructions", extra_instructions @@ ss.instructions)
    IN sort_serialized_space(updated)

(***************************************************************************)
(* Requests.  The remote store keeps what the last POST or PATCH wrote and *)
(* a GET returns it: POST stores the payload, PATCH replaces the           *)
(* serialized_space of the stored space.                                   *)
(***************************************************************************)
NoRequest == << >>

\* what json.loads(current["serialized_space"]) gives after the GET
Fetched == loads(store[1].serialized_space)

\* a script makes its next call: none of its calls has raised (an exception
\* ends the __main__ of a module, and the test of run_tests.py that made the
\* space), and the behaviour has write requests left
Running == writes < MaxWrites /\ last.raised = ""

\* the call repeats the one before it: the same function, the same arguments,
\* nothing in between, and the one before sent its PATCH
Again(op, arg) == last.op = op /\ last.arg = arg /\ last.sent # NoRequest

\* api_request("POST", "/api/2.0/genie/spaces", json_data=payload)
Post(op, title, doc) ==
    LET payload == [title |-> title, serialized_space |-> dumps(doc)]
    IN /\ writes < MaxWrites
       /\ writes' = writes + 1
       /\ store' = <<payload>>
       /\ UNCHANGED <<callers, permissions, globals, script>>
       /\ last' = [op |-> op, arg |-> << >>, method |-> "POST", raised |-> "",
                   fetched |-> << >>, passed |-> << >>, encoded |-> <<doc>>,
                   sent |-> <<payload>>, again |-> FALSE]

\* api_request("PATCH", f"/api/2.0/genie/spaces/{space_id}", json_data={...})
Patch(op, arg, fetched, passed, doc) ==
    LET json_data == [serialized_space |-> dumps(doc)]
    IN /\ writes < MaxWrites
       /\ writes' = writes + 1
       /\ store' = <<Put(store[1], "serialized_space", json_data.serialized_space)>>
       /\ UNCHANGED <<callers, permissions, globals, script>>
       /\ last' = [op |-> op, arg |-> arg, method |-> "PATCH", raised |-> "",
                   fetched |-> <<fetched>>, passed |-> passed, encoded |-> <<doc>>,
                   sent |-> <<json_data>>, again |-> Again(op, arg)]

\* the function raised after its GET: no write request is sent
Raise(op, arg, fetched, exception) ==
    /\ UNCHANGED <<store, writes, callers, permissions, globals, script>>
    /\ last' = [op |-> op, arg |-> arg, method |-> "", raised |-> exception,
                fetched |-> <<fetched>>, passed |-> << >>, encoded |-> << >>,
                sent |-> NoRequest, again |-> Again(op, arg)]

\* run_tests.update_space(token, space_id, current, config)
update_space(op, arg, fetched, config) ==
    Patch(op, arg, fetched, <<config>>, sort_serialized_space(config))

(***************************************************************************)
(* Create operations: one POST each, on a space that does not exist yet.   *)
(***************************************************************************)
create_space_with_inline_measures ==
    /\ store = << >>
    /\ Post("create_space_with_inline_measures", "Finance Metrics Space",
            inline_measures_space(Upcoming))
    /\ uuid' = Drawn(4)

create_space_with_data_sources ==
    /\ store = << >>
    /\ Post("create_space_with_data_sources", "Finance Data Space",
            data_sources_space(Upcoming))
    /\ uuid' = Drawn(1)

create_space_with_full_context ==
    /\ store = << >>
    /\ Post("create_space_with_full_context", "Finance Analytics Space",
            full_context_space(Upcoming))
    /\ uuid' = Drawn(13)

create_test_space ==
    /\ store = << >>
    /\ \/ /\ Post("create_test_space", "Test Metrics Space",
                  test_space(Upcoming, TEST_MEASURES(Upcoming)))
          /\ uuid' = Drawn(3)
       \/ /\ Post("create_test_space", "Test Permissions Space",
                  test_space(Upcoming, EmptyDict))
          /\ uuid' = Drawn(1)

(***************************************************************************)
(* Update operations of 02_data_sources.py, 01_metrics.py, 04_context.py:  *)
(* GET, change the document, PATCH.                                        *)
(***************************************************************************)
add_data_source ==
    /\ store # << >>
    /\ Running
    /\ LET config == Fetched
       IN \E table_identifier \in TableIdentifiers :
             Patch("add_data_source", <<table_identifier>>, config, << >>,
                   add_data_source_config(config, table_identifier))
    /\ UNCHANGED uuid

remove_data_source ==
    /\ store # << >>
    /\ Running
    /\ LET config == Fetched
       IN \E table_identifier \in TableIdentifiers :
             IF remove_data_source_raises(config)
             THEN Raise("remove_data_source", <<table_identifier>>, config, "KeyError")
             ELSE Patch("remove_data_source", <<table_identifier>>, config, << >>,
                        remove_data_source_config(config, table_identifier))
    /\ UNCHANGED uuid

\* the lists of identifiers replace_all_data_sources is called with
ReplaceArgs == {<< >>, <<INVOICES>>, <<PAYMENTS, ACCOUNTS>>}

replace_all_data_sources ==
    /\ store # << >>
    /\ Running
    /\ LET config == Fetched
       IN \E table_identifiers \in ReplaceArgs :
             Patch("replace_all_data_sources", table_identifiers, config, << >>,
                   replace_all_data_sources_config(config, table_identifiers))
    /\ UNCHANGED uuid

update_space_measures ==
    /\ store # << >>
    /\ Running
    /\ LET config == Fetched
       IN Patch("update_space_measures", << >>, config, << >>,
                update_space_measures_config(config, Upcoming))
    /\ uuid' = Drawn(2)

attach_metric_view_to_space ==
    /\ store # << >>
    /\ Running
    /\ LET config == Fetched
       IN Patch("attach_metric_view_to_space", << >>, config, << >>,
                attach_metric_view_config(config))
    /\ UNCHANGED uuid

\* 04_context __main__: get_context, append to the content, update_context
ADDITIONAL_RULE == "\nAdditional rule: Fiscal year starts in January."

update_context ==
    /\ store # << >>
    /\ Running
    /\ LET config == Fetched
       IN IF ~HasContent(config)
          THEN Raise("update_context", << >>, config, "KeyError")
          ELSE Patch("update_context", << >>, config, << >>,
                     AppendContent(config, ADDITIONAL_RULE))
    /\ UNCHANGED uuid

(***************************************************************************)
(* Update steps of run_tests.py: GET, change the document, update_space.   *)
(***************************************************************************)
\* the measure test_01_metrics appends; a fresh uuid is none of the list's ids
append_measure_config(config, id) ==
    LET ins == config.instructions
    IN Put(config, "instructions",
           Put(ins, "sql_snippets",
               Put(ins.sql_snippets, "measures",
                   Append(ins.sql_snippets.measures,
                          [id |-> id, sql |-> <<"AVG(amount)">>,
                           display_name |-> "avg_amount"]))))

test_append_measure ==
    /\ store # << >>
    /\ Running
    /\ LET config == Fetched
       IN IF ~HasMeasures(config)
          THEN /\ Raise("test_append_measure", << >>, config, "KeyError")
               /\ UNCHANGED uuid
          ELSE /\ \A i \in DOMAIN MeasuresOf(config) :
                      IdKey(MeasuresOf(config)[i]) # gen_id(Upcoming, 1)
               /\ update_space("test_append_measure", <<gen_id(Upcoming, 1)>>, config,
                               append_measure_config(config, gen_id(Upcoming, 1)))
               /\ uuid' = Drawn(1)

\* test_01_metrics: attach the metric view
test_attach_metric_view ==
    /\ store # << >>
    /\ Running
    /\ LET config == Fetched
       IN update_space("test_attach_metric_view", << >>, config, attach_metric_view_config(config))
    /\ UNCHANGED uuid

\* test_02_data_sources: remove accounts
test_remove_accounts ==
    /\ store # << >>
    /\ Running
    /\ LET config == Fetched
       IN IF ~HasTables(config)
          THEN Raise("test_remove_accounts", <<ACCOUNTS>>, config, "KeyError")
          ELSE update_space("test_remove_accounts", <<ACCOUNTS>>, config,
                  Put(config, "data_sources",
                      Put(config.data_sources, "tables",
                          without_identifier(config.data_sources.tables, ACCOUNTS))))
    /\ UNCHANGED uuid

\* test_02_data_sources: replace all
test_replace_tables ==
    /\ store # << >>
    /\ Running
    /\ LET config == Fetched
       IN IF ~Has(config, "data_sources")
          THEN Raise("test_replace_tables", <<ACCOUNTS, INVOICES>>, config, "KeyError")
          ELSE update_space("test_replace_tables", <<ACCOUNTS, INVOICES>>, config,
                  Put(config, "data_sources",
                      Put(config.data_sources, "tables",
                          <<[identifier |-> ACCOUNTS], [identifier |-> INVOICES]>>)))
    /\ UNCHANGED uuid

\* test_04_context: append to the content of the text instruction
FISCAL_YEAR == "\nFiscal year starts in January."

test_append_content ==
    /\ store # << >>
    /\ Running
    /\ LET config == Fetched
       IN IF ~HasContent(config)
          THEN Raise("test_append_content", << >>, config, "KeyError")
          ELSE update_space("test_append_content", << >>, config,
                            AppendContent(config, FISCAL_YEAR))
    /\ UNCHANGED uuid

(***************************************************************************)
(* Update steps of demo.py main: change the document the last GET          *)
(* returned, PATCH it.                                                     *)
(***************************************************************************)
\* step 3: append revenue_per_invoice, sort the measures by id
demo_add_measure_config(config, id) ==
    LET ins == config.instructions
    IN Put(config, "instructions",
           Put(ins, "sql_snippets",
               Put(ins.sql_snippets, "measures",
                   sorted_by_id(Append(ins.sql_snippets.measures,
                       [id |-> id,
                        sql |-> <<"SUM(amount) / NULLIF(COUNT(DISTINCT invoice_id), 0)">>,
                        display_name |-> "revenue_per_invoice"])))))

demo_add_measure ==
    /\ store # << >>
    /\ Running
    /\ LET config == Fetched
       IN IF ~HasMeasures(config)
          THEN /\ Raise("demo_add_measure", << >>, config, "KeyError")
               /\ UNCHANGED uuid
          ELSE /\ \A i \in DOMAIN MeasuresOf(config) :
                      IdKey(MeasuresOf(config)[i]) # gen_id(Upcoming, 1)
               /\ Patch("demo_add_measure", <<gen_id(Upcoming, 1)>>, config, << >>,
                        demo_add_measure_config(config, gen_id(Upcoming, 1)))
               /\ uuid' = Drawn(1)

\* step 4: remove payments
demo_remove_payments ==
    /\ store # << >>
    /\ Running
    /\ LET config == Fetched
       IN IF ~HasTables(config)
          THEN Raise("demo_remove_payments", <<PAYMENTS>>, config, "KeyError")
          ELSE Patch("demo_remove_payments", <<PAYMENTS>>, config, << >>,
                  Put(config, "data_sources",
                      Put(config.data_sources, "tables",
                          without_identifier(config.data_sources.tables, PAYMENTS))))
    /\ UNCHANGED uuid

\* step 4: re-add payments, sort the tables by identifier
demo_readd_payments ==
    /\ store # << >>
    /\ Running
    /\ LET config == Fetched
       IN IF ~HasTables(config)
          THEN Raise("demo_readd_payments", <<PAYMENTS>>, config, "KeyError")
          ELSE Patch("demo_readd_payments", <<PAYMENTS>>, config, << >>,
                  Put(config, "data_sources",
                      Put(config.data_sources, "tables",
                          sorted_by_identifier(Append(config.data_sources.tables,
                                                      [identifier |-> PAYMENTS])))))
    /\ UNCHANGED uuid

\* step 6: append the overdue definition to the text instruction
OVERDUE_RULE == "\nOverdue invoices are those with status = 'OVERDUE'."

demo_append_context ==
    /\ store # << >>
    /\ Running
    /\ LET config == Fetched
       IN IF ~HasContent(config)
          THEN Raise("demo_append_context", << >>, config, "KeyError")
          ELSE Patch("demo_append_context", << >>, config, << >>,
                     AppendContent(config, OVERDUE_RULE))
    /\ UNCHANGED uuid

(***************************************************************************)
(* The examples against a store that starts without the space.             *)
(***************************************************************************)
\* the clients that call the update functions, and a client outside a call
Callers == {"first", "second"}

NotCalling ==
    [pc |-> "idle", op |-> "", space_id |-> "", arg |-> << >>, fetched |-> << >>,
     json_data |-> << >>, requests |-> << >>, result |-> "",
     overwrote |-> << >>, latest |-> FALSE]

\* no call of 03_permissions.py yet, on a store that keeps no list
NoPermissionsCall ==
    [acl |-> << >>, before |-> << >>, op |-> "", arg |-> << >>, requests |-> << >>]

\* config.py was imported and nothing of it was called; no script runs
NoGlobals == << >>

NoScript == << >>

NoOperation ==
    [op |-> "", arg |-> << >>, method |-> "", raised |-> "",
     fetched |-> << >>, passed |-> << >>, encoded |-> << >>, sent |-> NoRequest,
     again |-> FALSE]

Init ==
    /\ store = << >>
    /\ last = NoOperation
    /\ uuid \in [run : FirstRuns, calls : {0}]
    /\ writes = 0
    /\ callers = [c \in Callers |-> NotCalling]
    /\ permissions = NoPermissionsCall
    /\ globals = NoGlobals
    /\ script = NoScript

Update ==
    \/ add_data_source
    \/ remove_data_source
    \/ replace_all_data_sources
    \/ update_space_measures
    \/ attach_metric_view_to_space
    \/ update_context
    \/ test_append_measure
    \/ test_attach_metric_view
    \/ test_remove_accounts
    \/ test_replace_tables
    \/ test_append_content
    \/ demo_add_measure
    \/ demo_remove_payments
    \/ demo_readd_payments
    \/ demo_append_context

Next ==
    \/ create_space_with_inline_measures
    \/ create_space_with_data_sources
    \/ create_space_with_full_context
    \/ create_test_space
    \/ Update

Spec == Init /\ [][Next]_vars

(***************************************************************************)
(* The update operations against a space some other client wrote (the      *)
(* Genie UI, another script): the fetched document is any document of      *)
(* InputDocs, its lists in any order, its branches present or not.  One    *)
(* update operation is run on it.                                          *)
(***************************************************************************)
SeqsUpTo(S, n) == UNION {[1..m -> S] : m \in 0..n}

TableEntries ==
    {[identifier |-> a] : a \in TableIdentifiers}
        \cup {[identifier |-> INVOICES,
               column_configs |-> <<[column_name |-> "amount"] @@ FORMAT>>]}

MeasureEntries ==
    {[id |-> 1, sql |-> <<"SUM(amount)">>, display_name |-> "total_revenue"],
     [id |-> 2, sql |-> <<"SUM(amount)">>, display_name |-> "total_revenue"],
     [id |-> 1, sql |-> <<"AVG(amount)">>, display_name |-> "avg_amount"]}

\* two entries of each kind of list, the larger key first
TwoTables == <<[identifier |-> PAYMENTS], [identifier |-> ACCOUNTS]>>
TwoTexts == <<[id |-> 2, content |-> <<"Second.">>], [id |-> 1, content |-> <<"First.">>]>>
TwoQuestions == <<[id |-> 2, question |-> <<"Q2">>], [id |-> 1, question |-> <<"Q1">>]>>
TwoExamples ==
    <<[id |-> 2, question |-> <<"Q2">>, sql |-> <<"SELECT 2">>],
      [id |-> 1, question |-> <<"Q1">>, sql |-> <<"SELECT 1">>]>>
TwoSnippets(name) ==
    <<[id |-> 2, sql |-> <<"2">>, display_name |-> name],
      [id |-> 1, sql |-> <<"1">>, display_name |-> name]>>
OneView == <<[identifier |-> MV_INVOICE]>>
OneText == <<[id |-> 1, content |-> <<"Test.">>]>>

\* any tables list, with or without metric views beside it
TableDocs ==
    {[version |-> 2, data_sources |-> ds, instructions |-> [text_instructions |-> OneText]] :
        ds \in {[tables |-> t] : t \in SeqsUpTo(TableEntries, MaxLen)}
               \cup {[tables |-> t, metric_views |-> OneView] :
                        t \in SeqsUpTo(TableEntries, MaxLen)}}

\* any measures list, beside unsorted lists and keys this repository never names
MeasureDocs ==
    {[version |-> 2,
      benchmarks |-> [questions |-> TwoQuestions],
      data_sources |-> [tables |-> TwoTables, metric_views |-> OneView],
      instructions |->
        [text_instructions |-> OneText,
         join_specs |-> TwoSnippets("join"),
         sql_snippets |-> [filters |-> TwoSnippets("filter"), measures |-> m]]] :
        m \in SeqsUpTo(MeasureEntries, MaxLen)}

\* every branch present or absent
DataSourcesShapes ==
    {EmptyDict, [tables |-> TwoTables], [metric_views |-> OneView],
     [tables |-> TwoTables, metric_views |-> OneView]}

SnippetsShapes ==
    {EmptyDict, [measures |-> TwoSnippets("measure")],
     [filters |-> TwoSnippets("filter"), expressions |-> TwoSnippets("expression"),
      measures |-> TwoSnippets("measure")]}

InstructionsShapes ==
    {text @@ examples @@ snippets :
        text \in {EmptyDict, [text_instructions |-> TwoTexts]},
        examples \in {EmptyDict, [example_question_sqls |-> TwoExamples]},
        snippets \in {EmptyDict} \cup {[sql_snippets |-> sn] : sn \in SnippetsShapes}}

ShapeDocs ==
    {[version |-> 2] @@ ds @@ ins @@ cfg :
        ds \in {EmptyDict} \cup {[data_sources |-> x] : x \in DataSourcesShapes},
        ins \in {EmptyDict} \cup {[instructions |-> x] : x \in InstructionsShapes},
        cfg \in {EmptyDict, [config |-> [sample_questions |-> TwoQuestions]]}}

InputDocs == TableDocs \cup MeasureDocs \cup ShapeDocs

InitFetched ==
    /\ store \in {<<[title |-> "Shared Space", serialized_space |-> dumps(doc)]>> :
                     doc \in InputDocs}
    /\ last = NoOperation
    /\ uuid \in [run : FirstRuns, calls : {0}]
    /\ writes = MaxWrites - 1
    /\ callers = [c \in Callers |-> NotCalling]
    /\ permissions = NoPermissionsCall
    /\ globals = NoGlobals
    /\ script = NoScript

SpecFetched == InitFetched /\ [][Update]_vars

(***************************************************************************)
(* The update functions of 02_data_sources.py and 01_metrics.py request by *)
(* request, run by two clients against the same store: the GET leaves, its *)
(* response arrives, the document is changed and the PATCH leaves, its     *)
(* response arrives.  api_request blocks in requests.request until the     *)
(* response is there and raises on an error status.                        *)
(***************************************************************************)
SPACE_A == "space_a"    \* the space the store holds
SPACE_B == "space_b"    \* a space_id the store does not know

SpaceIds == {SPACE_A, SPACE_B}

\* the calls a client makes: the function and its argument
UpdateCalls ==
    {[op |-> "add_data_source", arg |-> <<t>>] : t \in TableIdentifiers}
        \cup {[op |-> "remove_data_source", arg |-> <<t>>] : t \in TableIdentifiers}
        \cup {[op |-> "replace_all_data_sources", arg |-> ids] : ids \in ReplaceArgs}
        \cup {[op |-> "update_space_measures", arg |-> << >>],
              [op |-> "attach_metric_view_to_space", arg |-> << >>],
              [op |-> "update_context", arg |-> << >>]}

\* a transport adapter that sends every request a second time
request_resent(requests, method, space_id) ==
    requests \o <<[method |-> method, space_id |-> space_id, status |-> "200"],
                  [method |-> method, space_id |-> space_id, status |-> "sent"]>>

\* requests.request(method, url, ...): the request is on its way
request(requests, method, space_id) ==
    Append(requests, [method |-> method, space_id |-> space_id, status |-> "sent"])

\* the response to the request that is on its way
response(requests, status) ==
    [requests EXCEPT ![Len(requests)].status = status]

\* the error is swallowed: the GET gives an empty document, the PATCH returns
raise_for_status_swallowed(r, status, exception) ==
    IF r.pc = "GET"
    THEN [r EXCEPT !.pc = "modify", !.fetched = <<EmptyDict>>,
                   !.requests = response(r.requests, status)]
    ELSE [r EXCEPT !.pc = "idle", !.result = "returned",
                   !.requests = response(r.requests, status)]

\* requests.request raised, or resp.raise_for_status() did: the function ends
raise_for_status(r, status, exception) ==
    [r EXCEPT !.pc = "idle", !.result = exception,
              !.requests = response(r.requests, status)]

\* the document is fetched once more when the PATCH is built
patch_config_refetched(r, g) ==
    CASE r.op = "add_data_source" -> add_data_source_config(Fetched, r.arg[1])
      [] r.op = "remove_data_source" -> remove_data_source_config(Fetched, r.arg[1])
      [] r.op = "replace_all_data_sources" ->
             replace_all_data_sources_config(Fetched, r.arg)
      [] r.op = "update_space_measures" -> update_space_measures_config(Fetched, g)
      [] r.op = "attach_metric_view_to_space" -> attach_metric_view_config(Fetched)
      [] r.op = "update_context" -> AppendContent(Fetched, ADDITIONAL_RULE)

\* the KeyError of a subscript on a branch the fetched document lacks
patch_raises(r) ==
    \/ r.op = "remove_data_source" /\ remove_data_source_raises(r.fetched[1])
    \/ r.op = "update_context" /\ ~HasContent(r.fetched[1])

\* the document the function makes of the one it fetched
patch_config(r, g) ==
    CASE r.op = "add_data_source" -> add_data_source_config(r.fetched[1], r.arg[1])
      [] r.op = "remove_data_source" -> remove_data_source_config(r.fetched[1], r.arg[1])
      [] r.op = "replace_all_data_sources" ->
             replace_all_data_sources_config(r.fetched[1], r.arg)
      [] r.op = "update_space_measures" -> update_space_measures_config(r.fetched[1], g)
      [] r.op = "attach_metric_view_to_space" -> attach_metric_view_config(r.fetched[1])
      [] r.op = "update_context" -> AppendContent(r.fetched[1], ADDITIONAL_RULE)

\* only the branch that was changed is sent
patch_json_data_branch(config) ==
    [serialized_space |->
        dumps([k \in (DOMAIN config) \cap {"data_sources", "instructions"} |-> config[k]])]

\* json_data of the PATCH
patch_json_data(config) == [serialized_space |-> dumps(config)]

\* the function is called, once by each client: its GET leaves
call_update(c) ==
    /\ callers[c] = NotCalling
    /\ \E call \in UpdateCalls, space_id \in SpaceIds :
          callers' = [callers EXCEPT ![c] =
              [NotCalling EXCEPT !.pc = "GET", !.op = call.op, !.arg = call.arg,
                                 !.space_id = space_id,
                                 !.requests = request(<< >>, "GET", space_id)]]
    /\ UNCHANGED <<store, last, uuid, writes, permissions, globals, script>>

\* 200: json.loads(current["serialized_space"])
get_ok(c) ==
    /\ callers[c].pc = "GET"
    /\ callers[c].space_id = SPACE_A
    /\ callers' = [callers EXCEPT ![c].pc = "modify",
                                  ![c].fetched = <<Fetched>>,
                                  ![c].requests = response(@, "200")]
    /\ UNCHANGED <<store, last, uuid, writes, permissions, globals, script>>

\* 404: the store has no such space
get_not_found(c) ==
    /\ callers[c].pc = "GET"
    /\ callers[c].space_id # SPACE_A
    /\ callers' = [callers EXCEPT ![c] = raise_for_status(@, "404", "HTTPError")]
    /\ UNCHANGED <<store, last, uuid, writes, permissions, globals, script>>

\* 403, or no response at all
get_failed(c) ==
    /\ callers[c].pc = "GET"
    /\ \/ callers' = [callers EXCEPT ![c] = raise_for_status(@, "403", "HTTPError")]
       \/ callers' = [callers EXCEPT ![c] = raise_for_status(@, "none", "ConnectionError")]
    /\ UNCHANGED <<store, last, uuid, writes, permissions, globals, script>>

\* the document is changed and the PATCH leaves
send_patch(c) ==
    LET r == callers[c]
    IN /\ r.pc = "modify"
       /\ IF patch_raises(r)
          THEN /\ callers' = [callers EXCEPT ![c].pc = "idle", ![c].result = "KeyError"]
               /\ UNCHANGED <<uuid, writes>>
          ELSE /\ writes < MaxWrites
               /\ writes' = writes + 1
               /\ callers' = [callers EXCEPT
                      ![c].pc = "PATCH",
                      ![c].json_data = <<patch_json_data(patch_config(r, Upcoming))>>,
                      ![c].requests = request(@, "PATCH", r.space_id)]
               /\ uuid' = IF r.op = "update_space_measures" THEN Drawn(2) ELSE uuid
       /\ UNCHANGED <<store, last, permissions, globals, script>>

\* the store takes the PATCH: the serialized_space it holds is replaced
patched(json_data) == <<Put(store[1], "serialized_space", json_data.serialized_space)>>

\* the other clients are no longer the last to have written
written_by(c, r) ==
    [d \in Callers |-> IF d = c THEN r ELSE [callers[d] EXCEPT !.latest = FALSE]]

\* 200: the function returns
patch_ok(c) ==
    LET r == callers[c]
    IN /\ r.pc = "PATCH"
       /\ store' = patched(r.json_data[1])
       /\ callers' = written_by(c,
              [r EXCEPT !.pc = "idle", !.result = "returned",
                        !.requests = response(r.requests, "200"),
                        !.overwrote = <<Fetched>>, !.latest = TRUE])
       /\ UNCHANGED <<last, uuid, writes, permissions, globals, script>>

\* 400, 403, 409: the store refuses the PATCH and keeps what it has
patch_refused(c) ==
    /\ callers[c].pc = "PATCH"
    /\ callers' = [callers EXCEPT ![c] = raise_for_status(@, "400", "HTTPError")]
    /\ UNCHANGED <<store, last, uuid, writes, permissions, globals, script>>

\* the connection breaks: before the PATCH reached the store, or after
patch_failed(c) ==
    LET r == callers[c]
    IN /\ r.pc = "PATCH"
       /\ \/ /\ callers' = [callers EXCEPT
                    ![c] = raise_for_status(@, "none", "ConnectionError")]
             /\ UNCHANGED store
          \/ /\ store' = patched(r.json_data[1])
             /\ callers' = written_by(c,
                    [raise_for_status(r, "none", "ConnectionError")
                        EXCEPT !.overwrote = <<Fetched>>, !.latest = TRUE])
       /\ UNCHANGED <<last, uuid, writes, permissions, globals, script>>

InitCallers ==
    /\ uuid \in [run : GenIdRuns, calls : {1}]
    /\ store \in {<<[title |-> "Test Space", serialized_space |-> dumps(doc)]>> :
                     doc \in {[version |-> 2], test_space(uuid.run, EmptyDict)}}
    /\ last = NoOperation
    /\ writes = 1
    /\ callers = [c \in Callers |-> NotCalling]
    /\ permissions = NoPermissionsCall
    /\ globals = NoGlobals
    /\ script = NoScript

NextCallers ==
    \E c \in Callers :
        \/ call_update(c)
        \/ get_ok(c)
        \/ get_not_found(c)
        \/ get_failed(c)
        \/ send_patch(c)
        \/ patch_ok(c)
        \/ patch_refused(c)
        \/ patch_failed(c)

SpecCallers == InitCallers /\ [][NextCallers]_vars

(***************************************************************************)
(* 03_permissions.py.  The store keeps an access control list per space:   *)
(* a GET returns its entries, each naming a principal with the levels it   *)
(* holds under all_permissions; a PATCH grants the levels of its entries   *)
(* and keeps the rest; a PUT makes the list the one given.  Whether a      *)
(* PATCH for a principal that already holds a level adds the new level or  *)
(* sets it in place of the old is the store's choice.                      *)
(***************************************************************************)
PERMISSION_LEVELS == {"CAN_READ", "CAN_RUN", "CAN_EDIT", "CAN_MANAGE"}

PrincipalKeys == {"user_name", "group_name", "service_principal_name"}

UserNames == {"analyst@company.com", "data-engineer@company.com"}
GroupNames == {"users", "admins"}
ServicePrincipalNames == {"genie-automation"}

\* the list of a space just created: its creator can manage it
OWNER_ACL ==
    <<[user_name |-> "owner@company.com",
       all_permissions |-> <<[permission_level |-> "CAN_MANAGE"]>>]>>

\* entry.get("user_name") or entry.get("group_name") or ...: the principal
\* an entry names, as its key and its name
PrincipalOf(entry) ==
    LET key == CHOOSE k \in PrincipalKeys : k \in DOMAIN entry
    IN <<key, entry[key]>>

\* [p["permission_level"] for p in entry.get("all_permissions", [])], over
\* the entries of a principal
LevelsOf(acl, principal) ==
    UNION {{acl[i].all_permissions[j].permission_level :
                j \in DOMAIN acl[i].all_permissions} :
              i \in {i \in DOMAIN acl : PrincipalOf(acl[i]) = principal}}

\* the store grants the level of one entry of a PATCH or a PUT
Granted(acl, entry, upsert) ==
    LET principal == PrincipalOf(entry)
        level == [permission_level |-> entry.permission_level]
        Holds(e) == \E j \in DOMAIN e.all_permissions : e.all_permissions[j] = level
    IN IF \E i \in DOMAIN acl : PrincipalOf(acl[i]) = principal
       THEN [i \in DOMAIN acl |->
                IF PrincipalOf(acl[i]) # principal \/ Holds(acl[i]) THEN acl[i]
                ELSE IF upsert = "add"
                     THEN Put(acl[i], "all_permissions",
                              Append(acl[i].all_permissions, level))
                     ELSE Put(acl[i], "all_permissions", <<level>>)]
       ELSE Append(acl, [k \in {principal[1], "all_permissions"} |->
                            IF k = "all_permissions" THEN <<level>> ELSE principal[2]])

RECURSIVE GrantedAll(_, _, _)
GrantedAll(acl, access_control_list, upsert) ==
    IF access_control_list = << >> THEN acl
    ELSE GrantedAll(Granted(acl, Head(access_control_list), upsert),
                    Tail(access_control_list), upsert)

\* api_request(method, f"/api/2.0/permissions/genie/{space_id}", json_data=payload)
\* and what the store does with it
permissions_request(op, arg, method, payload) ==
    /\ writes < MaxWrites
    /\ writes' = writes + 1
    /\ \E upsert \in {"add", "set"} :
          permissions' =
              [acl |-> IF method = "PUT"
                       THEN GrantedAll(<< >>, payload.access_control_list, upsert)
                       ELSE GrantedAll(permissions.acl, payload.access_control_list,
                                       upsert),
               before |-> permissions.acl,
               op |-> op,
               arg |-> arg,
               requests |-> <<[method |-> method,
                               path |-> <<"api", "2.0", "permissions", "genie", SPACE_A>>,
                               json_data |-> payload]>>]
    /\ UNCHANGED <<store, last, uuid, callers, globals, script>>

add_user_permission_payload(user_name, permission_level) ==
    [access_control_list |->
        <<[user_name |-> user_name, permission_level |-> permission_level]>>]

add_group_permission_payload(group_name, permission_level) ==
    [access_control_list |->
        <<[group_name |-> group_name, permission_level |-> permission_level]>>]

\* the service principal granted under the key of a user
add_service_principal_permission_payload_user_name(sp_name, permission_level) ==
    [access_control_list |->
        <<[user_name |-> sp_name, permission_level |-> permission_level]>>]

add_service_principal_permission_payload(sp_name, permission_level) ==
    [access_control_list |->
        <<[service_principal_name |-> sp_name, permission_level |-> permission_level]>>]

replace_all_permissions_payload(access_control_list) ==
    [access_control_list |-> access_control_list]

add_user_permission ==
    /\ store # << >>
    /\ \E user_name \in UserNames, permission_level \in PERMISSION_LEVELS :
           permissions_request("add_user_permission", <<user_name, permission_level>>,
               "PATCH", add_user_permission_payload(user_name, permission_level))

add_group_permission ==
    /\ store # << >>
    /\ \E group_name \in GroupNames, permission_level \in PERMISSION_LEVELS :
           permissions_request("add_group_permission", <<group_name, permission_level>>,
               "PATCH", add_group_permission_payload(group_name, permission_level))

add_service_principal_permission ==
    /\ store # << >>
    /\ \E sp_name \in ServicePrincipalNames, permission_level \in PERMISSION_LEVELS :
           permissions_request("add_service_principal_permission",
               <<sp_name, permission_level>>,
               "PATCH", add_service_principal_permission_payload(sp_name, permission_level))

\* the lists replace_all_permissions is called with
ReplaceAcls ==
    {<< >>,
     <<[user_name |-> "analyst@company.com", permission_level |-> "CAN_MANAGE"]>>,
     <<[group_name |-> "users", permission_level |-> "CAN_READ"],
       [user_name |-> "data-engineer@company.com", permission_level |-> "CAN_EDIT"],
       [group_name |-> "users", permission_level |-> "CAN_RUN"]>>}

replace_all_permissions ==
    /\ store # << >>
    /\ \E access_control_list \in ReplaceAcls :
           permissions_request("replace_all_permissions", access_control_list,
               "PUT", replace_all_permissions_payload(access_control_list))

bulk_grant_example ==
    /\ store # << >>
    /\ permissions_request("bulk_grant_example", << >>, "PATCH",
           [access_control_list |->
               <<[user_name |-> "analyst@company.com", permission_level |-> "CAN_READ"],
                 [user_name |-> "data-engineer@company.com", permission_level |-> "CAN_EDIT"],
                 [group_name |-> "finance-analysts", permission_level |-> "CAN_RUN"],
                 [group_name |-> "finance-admins", permission_level |-> "CAN_MANAGE"]>>])

\* test_03_permissions: CAN_RUN to the users group
test_grant_users ==
    /\ store # << >>
    /\ permissions_request("test_grant_users", << >>, "PATCH",
           [access_control_list |->
               <<[group_name |-> "users", permission_level |-> "CAN_RUN"]>>])

\* test_03_permissions: CAN_EDIT to the admins group, after the users group
test_grant_admins ==
    /\ store # << >>
    /\ permissions.op = "test_grant_users"
    /\ permissions_request("test_grant_admins", << >>, "PATCH",
           [access_control_list |->
               <<[group_name |-> "admins", permission_level |-> "CAN_EDIT"]>>])

\* demo.py step 5: both groups in one PATCH
demo_grant_groups ==
    /\ store # << >>
    /\ permissions_request("demo_grant_groups", << >>, "PATCH",
           [access_control_list |->
               <<[group_name |-> "users", permission_level |-> "CAN_RUN"],
                 [group_name |-> "admins", permission_level |-> "CAN_EDIT"]>>])

\* the space exists, made by one POST, and its creator manages it
InitPermissions ==
    /\ uuid \in [run : FirstRuns, calls : {1}]
    /\ store = <<[title |-> "Test Permissions Space",
                  serialized_space |-> dumps(test_space(uuid.run, EmptyDict))]>>
    /\ last = NoOperation
    /\ writes = 1
    /\ callers = [c \in Callers |-> NotCalling]
    /\ permissions = [NoPermissionsCall EXCEPT !.acl = OWNER_ACL]
    /\ globals = NoGlobals
    /\ script = NoScript

NextPermissions ==
    \/ add_user_permission
    \/ add_group_permission
    \/ add_service_principal_permission
    \/ replace_all_permissions
    \/ bulk_grant_example
    \/ test_grant_users
    \/ test_grant_admins
    \/ demo_grant_groups

SpecPermissions == InitPermissions /\ [][NextPermissions]_vars

(***************************************************************************)
(* config.py: the module-level HOST, TOKEN and WAREHOUSE_ID, read from the *)
(* environment at import, init_from_cli() and the two request functions    *)
(* that read the module-level values at each call.                         *)
(***************************************************************************)
DEFAULT_HOST == "https://e2-demo-field-eng.cloud.databricks.com"

\* os.environ at import: each variable is set or not
Environments ==
    [DATABRICKS_HOST : {"", "https://env.cloud.databricks.com"},
     DATABRICKS_TOKEN : {"", "env-token"},
     DATABRICKS_WAREHOUSE_ID : {"", "env-warehouse"}]

\* os.environ.get(name, default)
environ_get(environ, name, default) ==
    IF environ[name] = "" THEN default ELSE environ[name]

\* what the Databricks CLI knows of a profile
Profiles ==
    [host : {"https://cli.cloud.databricks.com"},
     access_token : {"cli-token"},
     warehouse_id : {"cli-warehouse"},
     name : {"e2-field", "other"}]

\* result.stdout of `databricks auth token --profile=...`: the token as JSON,
\* JSON without the token, or the text of an error
Stdouts(profile) ==
    {[json |-> TRUE, data |-> [access_token |-> profile.access_token]],
     [json |-> TRUE, data |-> [error |-> "no token"]],
     [json |-> FALSE, data |-> << >>]}

\* the module right after `import config`
Imported(environ) ==
    [HOST |-> environ_get(environ, "DATABRICKS_HOST", DEFAULT_HOST),
     TOKEN |-> environ_get(environ, "DATABRICKS_TOKEN", ""),
     WAREHOUSE_ID |-> environ_get(environ, "DATABRICKS_WAREHOUSE_ID", ""),
     profile |-> << >>, since |-> 0, raised |-> "", requests |-> << >>]

_headers == [Authorization |-> <<"Bearer ", globals.TOKEN>>]

\* api_request(method, path, json_data): the request that leaves, with the
\* module-level values of the moment
sent_request(method, path, json_data) ==
    [method |-> method, url |-> <<globals.HOST, path>>, headers |-> _headers,
     json |-> json_data]

init_from_cli ==
    /\ globals.raised = ""
    /\ globals.profile = << >>
    /\ \E profile \in Profiles : \E stdout \in Stdouts(profile) :
          globals' =
             IF ~stdout.json
             THEN [globals EXCEPT !.raised = "JSONDecodeError"]
             ELSE IF ~Has(stdout.data, "access_token")
             THEN [globals EXCEPT !.raised = "KeyError"]
             ELSE [globals EXCEPT !.TOKEN = stdout.data.access_token,
                                  !.profile = <<profile>>,
                                  !.since = Len(globals.requests)]
    /\ UNCHANGED <<store, last, uuid, writes, callers, permissions, script>>

api_request ==
    /\ globals.raised = ""
    /\ Len(globals.requests) < MaxLen
    /\ \E method \in {"GET", "DELETE"} :
          globals' = [globals EXCEPT !.requests =
                         Append(@, sent_request(method, "/api/2.0/genie/spaces", << >>))]
    /\ UNCHANGED <<store, last, uuid, writes, callers, permissions, script>>

execute_sql ==
    /\ globals.raised = ""
    /\ Len(globals.requests) < MaxLen
    /\ \E warehouse_id \in {"", "cd3b290bff658fa3"} :
          LET payload == [statement |-> "DROP TABLE IF EXISTS",
                          warehouse_id |-> IF warehouse_id # "" THEN warehouse_id
                                           ELSE globals.WAREHOUSE_ID]
          IN globals' = [globals EXCEPT !.requests =
                            Append(@, sent_request("POST", "/api/2.0/sql/statements/",
                                                   payload))]
    /\ UNCHANGED <<store, last, uuid, writes, callers, permissions, script>>

InitConfig ==
    /\ store = << >>
    /\ last = NoOperation
    /\ uuid \in [run : FirstRuns, calls : {0}]
    /\ writes = 0
    /\ callers = [c \in Callers |-> NotCalling]
    /\ permissions = NoPermissionsCall
    /\ globals \in {Imported(environ) : environ \in Environments}
    /\ script = NoScript

NextConfig ==
    \/ init_from_cli
    \/ api_request
    \/ execute_sql

SpecConfig == InitConfig /\ [][NextConfig]_vars

(***************************************************************************)
(* Strings as Python handles them in 05_cleanup.py: str.lower(),           *)
(* str.strip() and the substring test `kw in title`.                       *)
(***************************************************************************)
UPPERCASE == "ABCDEFGHIJKLMNOPQRSTUVWXYZ"
LOWERCASE == "abcdefghijklmnopqrstuvwxyz"
WHITESPACE == {" ", "\n", "\t"}

Char(s, i) == SubSeq(s, i, i)

RECURSIVE lower(_)
lower(s) ==
    IF Len(s) = 0 THEN s
    ELSE LET c == Char(s, 1)
             up == {i \in 1..Len(UPPERCASE) : Char(UPPERCASE, i) = c}
         IN (IF up = {} THEN c ELSE Char(LOWERCASE, CHOOSE i \in up : TRUE))
               \o lower(SubSeq(s, 2, Len(s)))

RECURSIVE strip(_)
strip(s) ==
    IF Len(s) = 0 THEN s
    ELSE IF Char(s, 1) \in WHITESPACE THEN strip(SubSeq(s, 2, Len(s)))
    ELSE IF Char(s, Len(s)) \in WHITESPACE THEN strip(SubSeq(s, 1, Len(s) - 1))
    ELSE s

\* kw in title
Contains(title, kw) ==
    \E i \in 1..(Len(title) - Len(kw) + 1) : SubSeq(title, i, i + Len(kw) - 1) = kw

(***************************************************************************)
(* 05_cleanup.py: find the spaces the examples made, ask, delete them, and *)
(* with --tables drop the tables and the view of the examples.             *)
(***************************************************************************)
test_keywords ==
    {"Test Metrics Space", "Test Data Sources Space", "Test Permissions Space",
     "Test Context Space", "Finance Metrics Space", "Finance Data Space",
     "Finance Analytics Space", "Genie API Examples", "Genie API Demo"}

\* any(kw.lower() in title.lower() for kw in test_keywords), and the same with
\* the two sides of `in` exchanged
is_test_title_exchanged(title) == \E kw \in test_keywords : Contains(lower(kw), lower(title))

is_test_title(title) == \E kw \in test_keywords : Contains(lower(title), lower(kw))

\* the titles of the spaces the workspace may hold, and what the user may type
Titles ==
    {"Test Metrics Space", "TEST CONTEXT SPACE (copy)", "My genie api demo",
     "Metrics Space", "Finance Dashboard"}

Answers == {"y", "Y", " y\n", "yes", "n", ""}

\* GET /api/2.0/genie/spaces: up to two spaces, their ids in listing order
Listings ==
    {<< >>} \cup {<<[space_id |-> "s1", title |-> a]>> : a \in Titles}
        \cup {<<[space_id |-> "s1", title |-> a], [space_id |-> "s2", title |-> b]>> :
                 a \in Titles, b \in Titles}

RECURSIVE matches(_)
matches(spaces) ==
    IF spaces = << >> THEN << >>
    ELSE (IF is_test_title(Head(spaces).title) THEN <<Head(spaces)>> ELSE << >>)
            \o matches(Tail(spaces))

objects == <<INVOICES, PAYMENTS, ACCOUNTS, MV_INVOICE>>

\* r.get("status", {}).get("state", "") of a statement that returned: "" when
\* the response names no state
StatementStates == {"SUCCEEDED", "FAILED", ""}

Cleanup(argv, spaces) ==
    [pc |-> "find_test_spaces", argv |-> argv, spaces |-> spaces,
     test_spaces |-> << >>, answer |-> << >>, requests |-> << >>,
     obj |-> 1, state |-> "", results |-> << >>, raised |-> ""]

\* where __main__ goes on after the spaces
after_spaces == IF "--tables" \in script.argv THEN "drop_table" ELSE "done"

find_test_spaces ==
    /\ script.pc = "find_test_spaces"
    /\ \/ LET found == matches(script.spaces)
          IN script' = [script EXCEPT
                           !.test_spaces = found,
                           !.requests = Append(@, [method |-> "GET", path |-> "spaces"]),
                           !.pc = IF found = << >> THEN after_spaces ELSE "input"]
       \/ script' = [script EXCEPT
                        !.requests = Append(@, [method |-> "GET", path |-> "spaces"]),
                        !.pc = "raised", !.raised = "HTTPError"]
    /\ UNCHANGED <<store, last, uuid, writes, callers, permissions, globals>>

\* confirm = input("Delete these spaces? [y/N] ").strip().lower()
confirm ==
    /\ script.pc = "input"
    /\ \E answer \in Answers :
          script' = [script EXCEPT
                        !.answer = <<answer>>,
                        !.pc = IF lower(strip(answer)) = "y" THEN "delete_space"
                               ELSE after_spaces]
    /\ UNCHANGED <<store, last, uuid, writes, callers, permissions, globals>>

\* for s in test_spaces: delete_space(s["space_id"])
delete_space ==
    /\ script.pc = "delete_space"
    /\ script.test_spaces # << >>
    /\ LET s == Head(script.test_spaces)
           sent == Append(script.requests, [method |-> "DELETE", path |-> s.space_id])
       IN \/ script' = [script EXCEPT
                           !.requests = sent,
                           !.test_spaces = Tail(@),
                           !.pc = IF Tail(script.test_spaces) = << >>
                                  THEN after_spaces ELSE "delete_space"]
          \/ script' = [script EXCEPT !.requests = sent, !.pc = "raised",
                                      !.raised = "HTTPError"]
    /\ UNCHANGED <<store, last, uuid, writes, callers, permissions, globals>>

\* results.append((obj, state)), and the next round of the loop
appended(state) ==
    [script EXCEPT !.state = state,
                   !.results = Append(@, <<objects[script.obj], state>>),
                   !.obj = @ + 1,
                   !.pc = IF script.obj = Len(objects) THEN "done" ELSE "drop_table"]

\* if state != "SUCCEEDED", and the same with the second statement sent always
drop_view_too_always(state) == TRUE

drop_view_too(state) == state # "SUCCEEDED"

\* r = execute_sql(f"DROP TABLE IF EXISTS {obj}")
drop_table ==
    /\ script.pc = "drop_table"
    /\ LET sent(state) == Append(script.requests,
                                 [method |-> "POST", path |-> "DROP TABLE IF EXISTS",
                                  obj |-> objects[script.obj], state |-> state])
       IN \/ \E state \in StatementStates :
                script' = IF drop_view_too(state)
                          THEN [script EXCEPT !.requests = sent(state),
                                              !.state = state, !.pc = "drop_view"]
                          ELSE [appended(state) EXCEPT !.requests = sent(state)]
          \/ script' = [script EXCEPT !.requests = sent("raised"), !.pc = "raised",
                                      !.raised = "HTTPError"]
    /\ UNCHANGED <<store, last, uuid, writes, callers, permissions, globals>>

\* r = execute_sql(f"DROP VIEW IF EXISTS {obj}")
drop_view ==
    /\ script.pc = "drop_view"
    /\ LET sent(state) == Append(script.requests,
                                 [method |-> "POST", path |-> "DROP VIEW IF EXISTS",
                                  obj |-> objects[script.obj], state |-> state])
       IN \/ \E state \in StatementStates :
                script' = [appended(state) EXCEPT !.requests = sent(state)]
          \/ script' = [script EXCEPT !.requests = sent("raised"), !.pc = "raised",
                                      !.raised = "HTTPError"]
    /\ UNCHANGED <<store, last, uuid, writes, callers, permissions, globals>>

InitCleanup ==
    /\ store = << >>
    /\ last = NoOperation
    /\ uuid = [run |-> CHOOSE run \in FirstRuns : TRUE, calls |-> 0]
    /\ writes = 0
    /\ callers = [c \in Callers |-> NotCalling]
    /\ permissions = NoPermissionsCall
    /\ globals = NoGlobals
    /\ script \in {Cleanup(argv, spaces) :
                      argv \in {{}, {"--tables"}}, spaces \in Listings}

NextCleanup ==
    \/ find_test_spaces
    \/ confirm
    \/ delete_space
    \/ drop_table
    \/ drop_view

SpecCleanup == InitCleanup /\ [][NextCleanup]_vars

(***************************************************************************)
(* The documents run_tests.py and demo.py build themselves.                *)
(***************************************************************************)
\* test_02_data_sources: the tables are written in sorted order, nothing sorts
test_data_sources_space(g) ==
    [version |-> 2,
     data_sources |->
       [tables |-> <<[identifier |-> ACCOUNTS], [identifier |-> INVOICES],
                     [identifier |-> PAYMENTS]>>],
     instructions |->
       [text_instructions |-> <<[id |-> gen_id(g, 1), content |-> <<"Test.">>]>>]]

\* test_04_context
test_context_space(g) ==
    sort_serialized_space(
       [version |-> 2,
        config |->
          [sample_questions |-> <<
               [id |-> gen_id(g, 1), question |-> <<"What is our total revenue this quarter?">>],
               [id |-> gen_id(g, 2), question |-> <<"Which companies have the most overdue invoices?">>] >>],
        data_sources |->
          [tables |-> <<
               [identifier |-> ACCOUNTS],
               [identifier |-> INVOICES,
                column_configs |-> <<[column_name |-> "amount"] @@ FORMAT,
                                     [column_name |-> "company_id"] @@ MATCHING>>],
               [identifier |-> PAYMENTS] >>],
        instructions |->
          [text_instructions |-> <<
               [id |-> gen_id(g, 3),
                content |-> <<"This space answers questions about financial invoices. ",
                              "All monetary values are in USD.">>] >>,
           example_question_sqls |-> <<
               [id |-> gen_id(g, 4), question |-> <<"Total revenue by quarter">>,
                sql |-> <<"SELECT fiscal_quarter, SUM(amount) AS total_revenue ">>] >>,
           sql_snippets |->
             [filters |-> <<
                  [id |-> gen_id(g, 5), sql |-> <<"invoices.status = 'PAID'">>,
                   display_name |-> "Paid invoices only"] >>,
              expressions |-> <<
                  [id |-> gen_id(g, 6),
                   sql |-> <<"CASE WHEN amount > 10000 THEN 'Large' ELSE 'Small' END">>,
                   display_name |-> "invoice_size"] >>,
              measures |-> <<
                  [id |-> gen_id(g, 7), sql |-> <<"SUM(amount)">>,
                   display_name |-> "total_revenue"],
                  [id |-> gen_id(g, 8), sql |-> <<"COUNT(DISTINCT invoice_id)">>,
                   display_name |-> "invoice_count"] >>]]])

\* demo.create_space_a
create_space_a(g) ==
    LET sample_questions == sorted_by_id(<<
            [id |-> gen_id(g, 1), question |-> <<"What is our total revenue this quarter?">>],
            [id |-> gen_id(g, 2), question |-> <<"Which companies have the most overdue invoices?">>],
            [id |-> gen_id(g, 3), question |-> <<"Show me payment trends over the last 6 months.">>],
            [id |-> gen_id(g, 4), question |-> <<"What is the average invoice amount by company?">>] >>)
        measures == sorted_by_id(<<
            [id |-> gen_id(g, 5), sql |-> <<"SUM(amount)">>, display_name |-> "total_revenue"],
            [id |-> gen_id(g, 6), sql |-> <<"COUNT(DISTINCT invoice_id)">>,
             display_name |-> "invoice_count"],
            [id |-> gen_id(g, 7), sql |-> <<"AVG(amount)">>,
             display_name |-> "avg_invoice_amount"],
            [id |-> gen_id(g, 8), sql |-> <<"SUM(CASE WHEN status = 'OVERDUE' THEN amount ELSE 0 END)">>,
             display_name |-> "overdue_amount"] >>)
        filters == sorted_by_id(<<
            [id |-> gen_id(g, 9), sql |-> <<"invoices.status = 'PAID'">>,
             display_name |-> "Paid invoices only"],
            [id |-> gen_id(g, 10), sql |-> <<"invoices.invoice_date >= DATE_ADD(CURRENT_DATE(), -90)">>,
             display_name |-> "Last 90 days"] >>)
        expressions == sorted_by_id(<<
            [id |-> gen_id(g, 11),
             sql |-> <<"CASE WHEN amount > 10000 THEN 'Large' WHEN amount > 1000 THEN 'Medium' ELSE 'Small' END">>,
             display_name |-> "invoice_size"] >>)
        example_sqls == sorted_by_id(<<
            [id |-> gen_id(g, 12), question |-> <<"Total revenue by quarter">>,
             sql |-> <<"SELECT fiscal_quarter, SUM(amount) AS total_revenue ">>],
            [id |-> gen_id(g, 13), question |-> <<"Overdue invoices by company">>,
             sql |-> <<"SELECT a.company_name, COUNT(*) AS overdue_count ">>] >>)
    IN [version |-> 2,
        config |-> [sample_questions |-> sample_questions],
        data_sources |->
          [tables |-> sorted(<<
               [identifier |-> ACCOUNTS],
               [identifier |-> INVOICES,
                column_configs |-> <<[column_name |-> "amount"] @@ FORMAT,
                                     [column_name |-> "company_id"] @@ MATCHING,
                                     [column_name |-> "status"] @@ MATCHING>>],
               [identifier |-> PAYMENTS] >>, "identifier")],
        instructions |->
          [text_instructions |-> <<
               [id |-> gen_id(g, 14),
                content |-> <<"This space answers questions about financial invoices and payments. ",
                              "All monetary values are in USD unless stated otherwise. ",
                              "Fiscal quarters: Q1=Jan-Mar, Q2=Apr-Jun, Q3=Jul-Sep, Q4=Oct-Dec.\n",
                              "\n",
                              "Key joins:\n",
                              "- invoices.company_id = accounts.account_id\n",
                              "- invoices.invoice_id = payments.invoice_id\n">>] >>,
           example_question_sqls |-> example_sqls,
           sql_snippets |->
             [filters |-> filters, expressions |-> expressions, measures |-> measures]]]

\* demo.create_space_b, and the same with the metric view whatever the flag
create_space_b_with_view(g, with_metric_view) ==
    [version |-> 2,
     data_sources |->
       [tables |-> sorted(<<[identifier |-> ACCOUNTS], [identifier |-> INVOICES],
                            [identifier |-> PAYMENTS]>>, "identifier"),
        metric_views |-> <<[identifier |-> MV_INVOICE]>>],
     instructions |->
       [text_instructions |-> <<
            [id |-> gen_id(g, 1),
             content |-> <<"This space uses metric views for governed, reusable financial metrics.">>] >>]]

create_space_b(g, with_metric_view) ==
    LET tables == sorted(<<[identifier |-> ACCOUNTS], [identifier |-> INVOICES],
                           [identifier |-> PAYMENTS]>>, "identifier")
        data_sources == IF with_metric_view
                        THEN [tables |-> tables,
                              metric_views |-> <<[identifier |-> MV_INVOICE]>>]
                        ELSE [tables |-> tables]
    IN [version |-> 2,
        data_sources |-> data_sources,
        instructions |->
          [text_instructions |-> <<
               [id |-> gen_id(g, 1),
                content |-> <<"This space uses metric views for governed, reusable financial metrics.">>] >>]]

(***************************************************************************)
(* The scripts: the four tests of run_tests.py under run_tests.main,       *)
(* demo.main, and the __main__ of 01_metrics.py.  A script is the list of  *)
(* its statements that send a request, change a local document, assert or  *)
(* branch, in source order; `var` is the local variable a statement        *)
(* assigns or reads, `on` the variable that holds the space id.            *)
(***************************************************************************)
Statement(do, var, arg, on) == [do |-> do, var |-> var, arg |-> arg, on |-> on, skip |-> 0]

\* if state == "SUCCEEDED": the next `skip` statements; else: go past them
IfSucceeded(var, skip) ==
    [do |-> "IF", var |-> var, arg |-> "SUCCEEDED", on |-> "", skip |-> skip]

test_01_metrics ==
    <<Statement("POST", "space_id", "Test Metrics Space", ""),
      Statement("GET", "config", "", "space_id"),
      Statement("SET", "config", "append avg_amount", ""),
      Statement("PATCH", "config", "update_space", "space_id"),
      Statement("GET", "vc", "", "space_id"),
      Statement("ASSERT", "vc", "len(measures) == 3", ""),
      Statement("DDL", "mv_result", "execute_sql", ""),
      IfSucceeded("mv_result", 3),
      Statement("GET", "config", "", "space_id"),
      Statement("SET", "config", "append mv_invoice", ""),
      Statement("PATCH", "config", "update_space", "space_id"),
      Statement("APPEND", "space_id", "created_spaces", "")>>

test_02_data_sources ==
    <<Statement("LIST", "spaces", "", ""),
      Statement("POST", "space_id", "Test Data Sources Space", ""),
      Statement("GET", "config", "", "space_id"),
      Statement("ASSERT", "config", "len(tables) == 3", ""),
      Statement("SET", "config", "remove accounts", ""),
      Statement("PATCH", "config", "update_space", "space_id"),
      Statement("GET", "vc", "", "space_id"),
      Statement("ASSERT", "vc", "accounts not in remaining", ""),
      Statement("GET", "config2", "", "space_id"),
      Statement("SET", "config2", "replace tables", ""),
      Statement("PATCH", "config2", "update_space", "space_id"),
      Statement("GET", "vc2", "", "space_id"),
      Statement("ASSERT", "vc2", "len(final) == 2", ""),
      Statement("APPEND", "space_id", "created_spaces", "")>>

test_03_permissions ==
    <<Statement("POST", "space_id", "Test Permissions Space", ""),
      Statement("PERMISSIONS", "perms", "GET", "space_id"),
      Statement("PERMISSIONS", "", "users CAN_RUN", "space_id"),
      Statement("PERMISSIONS", "perms2", "GET", "space_id"),
      Statement("ASSERT", "perms2", "users in groups", ""),
      Statement("PERMISSIONS", "", "admins CAN_EDIT", "space_id"),
      Statement("PERMISSIONS", "perms3", "GET", "space_id"),
      Statement("APPEND", "space_id", "created_spaces", "")>>

test_04_context ==
    <<Statement("POST", "space_id", "Test Context Space", ""),
      Statement("GET", "config", "", "space_id"),
      Statement("ASSERT", "config", "all context types", ""),
      Statement("SET", "config", "append fiscal year", ""),
      Statement("PATCH", "config", "update_space", "space_id"),
      Statement("GET", "uc", "", "space_id"),
      Statement("ASSERT", "uc", "Fiscal year in content", ""),
      Statement("APPEND", "space_id", "created_spaces", "")>>

\* for name, test_fn in [...]
TESTS ==
    <<[name |-> "01_metrics", test_fn |-> test_01_metrics],
      [name |-> "02_data_sources", test_fn |-> test_02_data_sources],
      [name |-> "03_permissions", test_fn |-> test_03_permissions],
      [name |-> "04_context", test_fn |-> test_04_context]>>

\* demo.main, step 4 with the document of step 2 in place of the one fetched
\* after step 3
demo_step_4_stale ==
    <<Statement("SET", "config_a", "remove payments", ""),
      Statement("PATCH", "config_a", "api_request", "space_a"),
      Statement("GET", "check_config", "", "space_a"),
      Statement("SET", "check_config", "re-add payments", ""),
      Statement("PATCH", "check_config", "api_request", "space_a"),
      Statement("GET", "check2", "", "space_a")>>

demo_step_4 ==
    <<Statement("SET", "verify_config", "remove payments", ""),
      Statement("PATCH", "verify_config", "api_request", "space_a"),
      Statement("GET", "check_config", "", "space_a"),
      Statement("SET", "check_config", "re-add payments", ""),
      Statement("PATCH", "check_config", "api_request", "space_a"),
      Statement("GET", "check2", "", "space_a")>>

demo_main ==
    <<Statement("POST", "space_a", "Genie API Demo - Inline Measures", ""),
      Statement("GET", "config_a", "", "space_a"),
      Statement("SET", "config_a", "append revenue_per_invoice", ""),
      Statement("PATCH", "config_a", "api_request", "space_a"),
      Statement("GET", "verify_config", "", "space_a")>>
    \o demo_step_4
    \o <<Statement("PERMISSIONS", "perms", "GET", "space_a"),
         Statement("PERMISSIONS", "", "users CAN_RUN, admins CAN_EDIT", "space_a"),
         Statement("PERMISSIONS", "perms2", "GET", "space_a"),
         Statement("GET", "latest_config", "", "space_a"),
         Statement("SET", "latest_config", "append overdue rule", ""),
         Statement("PATCH", "latest_config", "api_request", "space_a"),
         Statement("DDL", "mv_result", "create_metric_view", ""),
         Statement("POST", "space_b", "Genie API Demo - Space B", ""),
         Statement("GET", "config_b", "", "space_b"),
         Statement("RETURN", "", "", "")>>

\* 01_metrics.py __main__, update_space_measures and
\* attach_metric_view_to_space written out
metrics_main ==
    <<Statement("POST", "new_space_id", "Finance Metrics Space", ""),
      Statement("GET", "config", "", "new_space_id"),
      Statement("SET", "config", "replace measures", ""),
      Statement("PATCH", "config", "api_request", "new_space_id"),
      Statement("DDL", "mv", "execute_sql", ""),
      IfSucceeded("mv", 3),
      Statement("GET", "config", "", "new_space_id"),
      Statement("SET", "config", "append mv_invoice", ""),
      Statement("PATCH", "config", "api_request", "new_space_id"),
      Statement("RETURN", "", "", "")>>

\* mv_result.get("status", {}).get("state", "")
StateOf(mv_result) == Get(Get(mv_result, "status", EmptyDict), "state", "")

\* the document a POST sends and the gen_id() calls building it makes
built(title, g, locals) ==
    CASE title = "Test Metrics Space" ->
            [doc |-> test_space(g, TEST_MEASURES(g)), calls |-> 3]
      [] title = "Test Permissions Space" ->
            [doc |-> test_space(g, EmptyDict), calls |-> 1]
      [] title = "Test Data Sources Space" ->
            [doc |-> test_data_sources_space(g), calls |-> 1]
      [] title = "Test Context Space" ->
            [doc |-> test_context_space(g), calls |-> 8]
      [] title = "Finance Metrics Space" ->
            [doc |-> inline_measures_space(g), calls |-> 4]
      [] title = "Genie API Demo - Inline Measures" ->
            [doc |-> create_space_a(g), calls |-> 14]
      [] title = "Genie API Demo - Space B" ->
            [doc |-> create_space_b(g, StateOf(locals.mv_result) = "SUCCEEDED"),
             calls |-> 1]

WithTables(config, tables) ==
    Put(config, "data_sources", Put(config.data_sources, "tables", tables))

\* the document after the statements between a GET and the PATCH, and the
\* gen_id() calls they make
changed(how, config, g) ==
    CASE how = "append avg_amount" ->
            [doc |-> append_measure_config(config, gen_id(g, 1)), calls |-> 1]
      [] how = "append revenue_per_invoice" ->
            [doc |-> demo_add_measure_config(config, gen_id(g, 1)), calls |-> 1]
      [] how = "replace measures" ->
            [doc |-> update_space_measures_config(config, g), calls |-> 2]
      [] how = "append mv_invoice" ->
            [doc |-> attach_metric_view_config(config), calls |-> 0]
      [] how = "remove accounts" ->
            [doc |-> WithTables(config, without_identifier(config.data_sources.tables, ACCOUNTS)),
             calls |-> 0]
      [] how = "replace tables" ->
            [doc |-> WithTables(config, <<[identifier |-> ACCOUNTS], [identifier |-> INVOICES]>>),
             calls |-> 0]
      [] how = "remove payments" ->
            [doc |-> WithTables(config, without_identifier(config.data_sources.tables, PAYMENTS)),
             calls |-> 0]
      [] how = "re-add payments" ->
            [doc |-> WithTables(config,
                        sorted_by_identifier(Append(config.data_sources.tables,
                                                    [identifier |-> PAYMENTS]))),
             calls |-> 0]
      [] how = "append fiscal year" ->
            [doc |-> AppendContent(config, FISCAL_YEAR), calls |-> 0]
      [] how = "append overdue rule" ->
            [doc |-> AppendContent(config, OVERDUE_RULE), calls |-> 0]

\* the access_control_list a PATCH of the permissions sends
permissions_payload(arg) ==
    CASE arg = "users CAN_RUN" ->
            <<[group_name |-> "users", permission_level |-> "CAN_RUN"]>>
      [] arg = "admins CAN_EDIT" ->
            <<[group_name |-> "admins", permission_level |-> "CAN_EDIT"]>>
      [] arg = "users CAN_RUN, admins CAN_EDIT" ->
            <<[group_name |-> "users", permission_level |-> "CAN_RUN"],
              [group_name |-> "admins", permission_level |-> "CAN_EDIT"]>>

\* the assert statements of the tests, on the value of the local variable
asserted(what, value) ==
    CASE what = "len(measures) == 3" -> Len(MeasuresOf(value)) = 3
      [] what = "len(tables) == 3" -> Len(TablesOf(value)) = 3
      [] what = "accounts not in remaining" ->
            \A i \in DOMAIN TablesOf(value) : TablesOf(value)[i].identifier # ACCOUNTS
      [] what = "len(final) == 2" -> Len(TablesOf(value)) = 2
      [] what = "users in groups" ->
            \E i \in DOMAIN value : Has(value[i], "group_name") /\ value[i].group_name = "users"
      [] what = "all context types" ->
            /\ {"text_instructions", "example_question_sqls", "sql_snippets"}
                  \subseteq DOMAIN Get(value, "instructions", EmptyDict)
            /\ SNIPPET_KEYS \subseteq DOMAIN value.instructions.sql_snippets
      [] what = "Fiscal year in content" ->
            \E i \in DOMAIN value.instructions.text_instructions[1].content :
               Contains(value.instructions.text_instructions[1].content[i], "Fiscal year")

(***************************************************************************)
(* How a script runs.  The store keeps the spaces in the order of their    *)
(* POSTs, a space id is the place of the space in the store.  Each request *)
(* either comes back or raises (an error status, no connection); the       *)
(* store then has not taken it.  An exception ends demo.main and the       *)
(* __main__ of a module; run_tests.main catches it, notes the test as      *)
(* failed and goes on with the next test.                                  *)
(***************************************************************************)
Programs == {"run_tests", "demo", "01_metrics"}

Started(program) ==
    [program |-> program, test |-> IF program = "run_tests" THEN 1 ELSE 0,
     pc |-> 1, phase |-> "run", locals |-> EmptyDict, created_spaces |-> << >>,
     results |-> << >>, requests |-> << >>, raised |-> "", exit |-> -1]

Code ==
    IF script.program = "run_tests" THEN TESTS[script.test].test_fn
    ELSE IF script.program = "demo" THEN demo_main
    ELSE metrics_main

Current == Code[script.pc]

Doing(do) == script.phase = "run" /\ Current.do = do

\* a request as it leaves, and whether it raised
Request(method, path, space, json, got, exception) ==
    [method |-> method, path |-> path, space |-> space, json |-> json, got |-> got,
     raised |-> exception]

\* results[name] = "PASS" or f"FAIL: {e}", then the next round of the loop
next_test(s, status) ==
    LET noted == [s EXCEPT !.results = Append(@, <<TESTS[s.test].name, status>>),
                           !.locals = EmptyDict, !.pc = 1]
    IN IF s.test < Len(TESTS) THEN [noted EXCEPT !.test = @ + 1]
       ELSE [noted EXCEPT !.phase = "cleanup"]

\* the statement raised e
raise(s, e) ==
    IF s.program = "run_tests" THEN next_test(s, "FAIL: " \o e)
    ELSE [s EXCEPT !.phase = "raised", !.raised = e]

\* the statement is done: the request in the log, the local variable assigned
done(entries, var, value) ==
    [script EXCEPT !.requests = @ \o entries, !.locals = Put(@, var, value),
                   !.pc = @ + 1]

failed(entry, e) == raise([script EXCEPT !.requests = Append(@, entry)], e)

\* a local document: what the GET returned (and what was done to it since),
\* the space it is of, the place of the GET among the requests
Local(doc, space) == [doc |-> doc, space |-> space, got |-> Len(script.requests) + 1]

\* result = api_request(token, "POST", "/api/2.0/genie/spaces", json_data=payload)
do_post ==
    /\ Doing("POST")
    /\ LET payload == built(Current.arg, Upcoming, script.locals)
           space_id == Len(store) + 1
           entry(e) == Request("POST", "/api/2.0/genie/spaces", space_id,
                               <<payload.doc>>, 0, e)
       IN /\ uuid' = Drawn(payload.calls)
          /\ \/ /\ store' = Append(store, [title |-> Current.arg,
                                           serialized_space |-> dumps(payload.doc),
                                           access_control_list |-> OWNER_ACL])
                /\ script' = done(<<entry("")>>, Current.var, space_id)
             \/ /\ script' = failed(entry("HTTPError"), "HTTPError")
                /\ UNCHANGED store
    /\ UNCHANGED <<last, writes, callers, permissions, globals>>

\* current = get_space(token, space_id); config = json.loads(current["serialized_space"])
do_get ==
    /\ Doing("GET")
    /\ LET space_id == script.locals[Current.on]
           entry(e) == Request("GET", "/api/2.0/genie/spaces/{space_id}", space_id,
                               << >>, 0, e)
       IN \/ script' = done(<<entry("")>>, Current.var,
                            Local(loads(store[space_id].serialized_space), space_id))
          \/ script' = failed(entry("HTTPError"), "HTTPError")
    /\ UNCHANGED <<store, last, uuid, writes, callers, permissions, globals>>

\* the statements that change the local document
do_set ==
    /\ Doing("SET")
    /\ LET config == script.locals[Current.var]
           after == changed(Current.arg, config.doc, Upcoming)
       IN /\ script' = done(<< >>, Current.var, [config EXCEPT !.doc = after.doc])
          /\ uuid' = Drawn(after.calls)
    /\ UNCHANGED <<store, last, writes, callers, permissions, globals>>

\* update_space(token, space_id, current, config), which sorts config in
\* place, or api_request("PATCH", ..., json_data={"serialized_space": json.dumps(config)})
do_patch ==
    /\ Doing("PATCH")
    /\ LET config == script.locals[Current.var]
           space_id == script.locals[Current.on]
           doc == IF Current.arg = "update_space" THEN sort_serialized_space(config.doc)
                  ELSE config.doc
           entry(e) == Request("PATCH", "/api/2.0/genie/spaces/{space_id}", space_id,
                               <<doc>>, config.got, e)
       IN \/ /\ store' = [store EXCEPT ![space_id] =
                             Put(@, "serialized_space", dumps(doc))]
             /\ script' = done(<<entry("")>>, Current.var, [config EXCEPT !.doc = doc])
          \/ /\ script' = failed(entry("HTTPError"), "HTTPError")
             /\ UNCHANGED store
    /\ UNCHANGED <<last, uuid, writes, callers, permissions, globals>>

\* assert ...
do_assert ==
    /\ Doing("ASSERT")
    /\ script' = IF asserted(Current.arg, script.locals[Current.var].doc)
                 THEN [script EXCEPT !.pc = @ + 1]
                 ELSE raise(script, "AssertionError")
    /\ UNCHANGED <<store, last, uuid, writes, callers, permissions, globals>>

\* what POST /api/2.0/sql/statements/ may come back with: no response at all,
\* a statement in some state, an error as JSON, a page that is no JSON,
\* nothing
Responses ==
    {[status_code |-> 0, json |-> << >>, text |-> ""]}
       \cup {[status_code |-> 200, json |-> <<[status |-> [state |-> state]]>>,
              text |-> "{\"status\": ...}"] : state \in {"SUCCEEDED", "FAILED", "PENDING"}}
       \cup {[status_code |-> 400,
              json |-> <<[error_code |-> "BAD_REQUEST", message |-> "unsupported"]>>,
              text |-> "{\"error_code\": ...}"],
             [status_code |-> 502, json |-> << >>, text |-> "<html>Bad Gateway</html>"],
             [status_code |-> 200, json |-> << >>, text |-> ""]}

\* config.api_request and run_tests.api_request: resp.raise_for_status();
\* return resp.json() if resp.text else {}
api_request_result(resp) ==
    IF resp.status_code = 0 THEN [raised |-> "ConnectionError", value |-> EmptyDict]
    ELSE IF resp.status_code >= 400 THEN [raised |-> "HTTPError", value |-> EmptyDict]
    ELSE IF resp.text = "" THEN [raised |-> "", value |-> EmptyDict]
    ELSE IF resp.json = << >> THEN [raised |-> "JSONDecodeError", value |-> EmptyDict]
    ELSE [raised |-> "", value |-> resp.json[1]]

\* demo.create_metric_view: resp = _requests.post(...), then
\* try: return resp.json()  except Exception: return {"status": {"state": "FAILED", ...}}
create_metric_view_result(resp) ==
    IF resp.status_code = 0 THEN [raised |-> "ConnectionError", value |-> EmptyDict]
    ELSE IF resp.json = << >>
    THEN [raised |-> "",
          value |-> [status |-> [state |-> "FAILED", error |-> [message |-> resp.text]]]]
    ELSE [raised |-> "", value |-> resp.json[1]]

\* mv_result = create_metric_view()  or  execute_sql(token, mv_ddl)
do_statement ==
    /\ Doing("DDL")
    /\ \E resp \in Responses :
          LET r == IF Current.arg = "create_metric_view"
                   THEN create_metric_view_result(resp)
                   ELSE api_request_result(resp)
              entry == [Request("POST", "/api/2.0/sql/statements/", 0, << >>, 0, r.raised)
                           EXCEPT !.json = <<resp, r.value>>]
          IN script' = IF r.raised = "" THEN done(<<entry>>, Current.var, r.value)
                       ELSE failed(entry, r.raised)
    /\ UNCHANGED <<store, last, uuid, writes, callers, permissions, globals>>

\* if mv_succeeded: ... else: ...
do_if ==
    /\ Doing("IF")
    /\ script' = [script EXCEPT !.pc =
                     IF StateOf(script.locals[Current.var]) = Current.arg THEN @ + 1
                     ELSE @ + 1 + Current.skip]
    /\ UNCHANGED <<store, last, uuid, writes, callers, permissions, globals>>

\* api_request(token, "GET" or "PATCH", f"/api/2.0/permissions/genie/{space_id}", ...)
do_permissions ==
    /\ Doing("PERMISSIONS")
    /\ LET space_id == script.locals[Current.on]
           method == IF Current.arg = "GET" THEN "GET" ELSE "PATCH"
           entry(e) == Request(method, "/api/2.0/permissions/genie/{space_id}", space_id,
                               << >>, 0, e)
       IN \/ /\ Current.arg = "GET"
             /\ script' = done(<<entry("")>>, Current.var,
                               Local(store[space_id].access_control_list, space_id))
             /\ UNCHANGED store
          \/ /\ Current.arg # "GET"
             /\ \E upsert \in {"add", "set"} :
                   store' = [store EXCEPT ![space_id].access_control_list =
                                GrantedAll(@, permissions_payload(Current.arg), upsert)]
             /\ script' = [script EXCEPT !.requests = Append(@, entry("")), !.pc = @ + 1]
          \/ /\ script' = failed(entry("HTTPError"), "HTTPError")
             /\ UNCHANGED store
    /\ UNCHANGED <<last, uuid, writes, callers, permissions, globals>>

\* spaces = api_request(token, "GET", "/api/2.0/genie/spaces")
do_list ==
    /\ Doing("LIST")
    /\ LET entry(e) == Request("GET", "/api/2.0/genie/spaces", 0, << >>, 0, e)
       IN \/ script' = done(<<entry("")>>, Current.var, Local(store, 0))
          \/ script' = failed(entry("HTTPError"), "HTTPError")
    /\ UNCHANGED <<store, last, uuid, writes, callers, permissions, globals>>

\* created_spaces.append(space_id); return True
do_append ==
    /\ Doing("APPEND")
    /\ script' = next_test([script EXCEPT !.created_spaces =
                               Append(@, script.locals[Current.var])], "PASS")
    /\ UNCHANGED <<store, last, uuid, writes, callers, permissions, globals>>

\* the end of demo.main and of the __main__ of 01_metrics.py
do_return ==
    /\ Doing("RETURN")
    /\ script' = [script EXCEPT !.phase = "done"]
    /\ UNCHANGED <<store, last, uuid, writes, callers, permissions, globals>>

\* for sid in created_spaces: try: delete_space(token, sid) except Exception: print
cleanup ==
    /\ script.phase = "cleanup"
    /\ script.pc <= Len(script.created_spaces)
    /\ LET sid == script.created_spaces[script.pc]
           entry(e) == Request("DELETE", "/api/2.0/genie/spaces/{space_id}", sid,
                               << >>, 0, e)
       IN \/ /\ store' = [store EXCEPT ![sid] = << >>]
             /\ script' = [script EXCEPT !.requests = Append(@, entry("")), !.pc = @ + 1]
          \/ /\ script' = [script EXCEPT !.requests = Append(@, entry("HTTPError")),
                                         !.pc = @ + 1]
             /\ UNCHANGED store
    /\ UNCHANGED <<last, uuid, writes, callers, permissions, globals>>

\* all(v == "PASS" for v in results.values()) with any in place of all
all_passed_any(results) == \E i \in DOMAIN results : results[i][2] = "PASS"

all_passed(results) == \A i \in DOMAIN results : results[i][2] = "PASS"

\* sys.exit(0 if all_passed else 1)
sys_exit ==
    /\ script.phase = "cleanup"
    /\ script.pc > Len(script.created_spaces)
    /\ script' = [script EXCEPT !.phase = "exited",
                                !.exit = IF all_passed(script.results) THEN 0 ELSE 1]
    /\ UNCHANGED <<store, last, uuid, writes, callers, permissions, globals>>

InitScripts ==
    /\ store = << >>
    /\ last = NoOperation
    /\ uuid \in [run : FirstRuns, calls : {0}]
    /\ writes = 0
    /\ callers = [c \in Callers |-> NotCalling]
    /\ permissions = NoPermissionsCall
    /\ globals = NoGlobals
    /\ script \in {Started(program) : program \in Programs}

NextScripts ==
    \/ do_post
    \/ do_get
    \/ do_set
    \/ do_patch
    \/ do_assert
    \/ do_statement
    \/ do_if
    \/ do_permissions
    \/ do_list
    \/ do_append
    \/ do_return
    \/ cleanup
    \/ sys_exit

SpecScripts == InitScripts /\ [][NextScripts]_vars

(***************************************************************************)
(* What the properties speak of.                                           *)
(***************************************************************************)
\* the document of the last write request
Submitted == loads(last.sent[1].serialized_space)

\* the document the last operation fetched
Before == last.fetched[1]

\* the document the last operation handed to update_space
Passed == last.passed[1]

\* the document a GET after the last operation returns
Refetched == loads(store[1].serialized_space)

\* the sort-key table: the seven lists and the field each is sorted by
SortKeyTable ==
    {[path |-> <<"data_sources", "tables">>, key |-> "identifier"],
     [path |-> <<"instructions", "text_instructions">>, key |-> "id"],
     [path |-> <<"instructions", "example_question_sqls">>, key |-> "id"],
     [path |-> <<"instructions", "sql_snippets", "filters">>, key |-> "id"],
     [path |-> <<"instructions", "sql_snippets", "expressions">>, key |-> "id"],
     [path |-> <<"instructions", "sql_snippets", "measures">>, key |-> "id"],
     [path |-> <<"config", "sample_questions">>, key |-> "id"]}

\* the value at a path of keys; << >> where a key of the path is absent
RECURSIVE At(_, _)
At(d, path) ==
    IF path = << >> THEN d
    ELSE IF Head(path) \in DOMAIN d THEN At(d[Head(path)], Tail(path))
    ELSE << >>

RECURSIVE Present(_, _)
Present(d, path) ==
    \/ path = << >>
    \/ Head(path) \in DOMAIN d /\ Present(d[Head(path)], Tail(path))

AllSorted(doc) == \A row \in SortKeyTable : IsSortedBy(At(doc, row.path), row.key)

Count(s, x) == Cardinality({i \in DOMAIN s : s[i] = x})

\* the same entries, each as often
SameEntries(s, t) ==
    /\ Len(s) = Len(t)
    /\ \A i \in DOMAIN s : Count(s, s[i]) = Count(t, s[i])

UpdateSpaceOps ==
    {"test_append_measure", "test_attach_metric_view", "test_remove_accounts",
     "test_replace_tables", "test_append_content"}

(***************************************************************************)
(* C1.  From an empty store, every serialized_space sent in a POST or a    *)
(* PATCH has data_sources.tables sorted ascending by identifier and each   *)
(* of the six id-bearing lists sorted ascending by id.                     *)
(***************************************************************************)
C1_EveryWriteSorted == last.sent # NoRequest => AllSorted(Submitted)

\* a third write, new measures in generation order high-then-low, beside
\* tables and metric views that earlier updates left
C1_Witness ==
    /\ writes >= 3
    /\ last.op = "update_space_measures"
    /\ Len(TablesOf(Submitted)) >= 2
    /\ MetricViewsOf(Submitted) # << >>
    /\ MeasuresOf(Submitted)[1].display_name = "revenue_per_invoice"

(***************************************************************************)
(* C2.  For any fetched document, lists unsorted included, the document    *)
(* that add_data_source, remove_data_source, replace_all_data_sources or   *)
(* sort_serialized_space submits has every list of the sort-key table      *)
(* non-decreasing under its key.                                           *)
(***************************************************************************)
C2_SortInvariantPerOperation ==
    /\ last.sent # NoRequest
    /\ last.op \in {"add_data_source", "remove_data_source", "replace_all_data_sources"}
                   \cup UpdateSpaceOps
    => AllSorted(Submitted)

(***************************************************************************)
(* C3.  sort_serialized_space returns a document in which every present    *)
(* list of the sort-key table is sorted by its key; the tables             *)
(* [payments, accounts] come back as [accounts, payments].                 *)
(***************************************************************************)
C3_NormalizeSorts ==
    last.passed # << >> =>
        /\ \A row \in SortKeyTable :
              Present(Passed, row.path) =>
                  /\ Present(Submitted, row.path)
                  /\ IsSortedBy(At(Submitted, row.path), row.key)
        /\ TablesOf(Passed) = <<[identifier |-> PAYMENTS], [identifier |-> ACCOUNTS]>>
              => TablesOf(Submitted) = <<[identifier |-> ACCOUNTS], [identifier |-> PAYMENTS]>>

\* all seven lists were passed in, none of them sorted
C3_Witness ==
    /\ last.passed # << >>
    /\ \A row \in SortKeyTable :
          Present(Passed, row.path) /\ ~IsSortedBy(At(Passed, row.path), row.key)
    /\ TablesOf(Passed) = <<[identifier |-> PAYMENTS], [identifier |-> ACCOUNTS]>>
    /\ TablesOf(Submitted) = <<[identifier |-> ACCOUNTS], [identifier |-> PAYMENTS]>>

(***************************************************************************)
(* C4.  sort_serialized_space is idempotent: applied to the document it    *)
(* returned, it returns that document.                                     *)
(***************************************************************************)
C4_NormalizeIdempotent ==
    last.passed # << >> => sort_serialized_space(Submitted) = Submitted

\* a list of three in falling order was passed in
C4_Witness ==
    /\ last.passed # << >>
    /\ Len(TablesOf(Passed)) = 3
    /\ \A i \in 1..2 : IdentifierKey(TablesOf(Passed)[i]) > IdentifierKey(TablesOf(Passed)[i + 1])
    /\ Submitted # Passed

(***************************************************************************)
(* C5.  sort_serialized_space leaves everything outside the seven lists of *)
(* the sort-key table as it was and adds or removes no key: the objects on *)
(* the paths keep their keys, every other key keeps its value, and each    *)
(* list keeps its entries (column_configs included) whole.                 *)
(***************************************************************************)
\* the objects the paths of the sort-key table pass through
BranchPaths ==
    {<< >>, <<"data_sources">>, <<"instructions">>,
     <<"instructions", "sql_snippets">>, <<"config">>}

\* the keys of the object at branch that lead to a list of the table
OnPath(branch) ==
    {row.path[Len(branch) + 1] :
        row \in {r \in SortKeyTable : SubSeq(r.path, 1, Len(branch)) = branch}}

C5_NormalizeKeepsTheRest ==
    last.passed # << >> =>
        /\ \A branch \in BranchPaths :
              /\ Present(Passed, branch) <=> Present(Submitted, branch)
              /\ Present(Passed, branch) =>
                    /\ DOMAIN At(Passed, branch) = DOMAIN At(Submitted, branch)
                    /\ \A k \in (DOMAIN At(Passed, branch)) \ OnPath(branch) :
                          At(Passed, branch)[k] = At(Submitted, branch)[k]
        /\ \A row \in SortKeyTable :
              /\ Present(Passed, row.path) <=> Present(Submitted, row.path)
              /\ SameEntries(At(Passed, row.path), At(Submitted, row.path))

\* keys this repository never names and column_configs went through a
\* normalization that reordered the document
C5_Witness ==
    /\ last.passed # << >>
    /\ Submitted # Passed
    /\ Has(Passed, "benchmarks")
    /\ Has(Passed.instructions, "join_specs")
    /\ Has(Passed.data_sources, "metric_views")

(***************************************************************************)
(* C6.  The document an update function of 02_data_sources.py or           *)
(* 01_metrics.py submits equals the fetched one in every branch other than *)
(* the one list the function targets.                                      *)
(***************************************************************************)
TargetList ==
    [add_data_source |-> <<"data_sources", "tables">>,
     remove_data_source |-> <<"data_sources", "tables">>,
     replace_all_data_sources |-> <<"data_sources", "tables">>,
     update_space_measures |-> <<"instructions", "sql_snippets", "measures">>,
     attach_metric_view_to_space |-> <<"data_sources", "metric_views">>]

\* d and e agree on every key that is not on the path
RECURSIVE SameOffPath(_, _, _)
SameOffPath(d, e, path) ==
    /\ \A k \in ((DOMAIN d) \cup (DOMAIN e)) \ {Head(path)} :
          k \in DOMAIN d /\ k \in DOMAIN e /\ d[k] = e[k]
    /\ Len(path) > 1 =>
          SameOffPath(Get(d, Head(path), EmptyDict), Get(e, Head(path), EmptyDict),
                      Tail(path))

C6_NestingPreserved ==
    last.sent # NoRequest /\ last.op \in DOMAIN TargetList
        => SameOffPath(Before, Submitted, TargetList[last.op])

(***************************************************************************)
(* C7.  remove_data_source with an identifier no fetched table has, also   *)
(* when the fetched document has no tables list or no data_sources, raises *)
(* nothing and submits a document equal, after normalization, to the       *)
(* fetched one.                                                            *)
(***************************************************************************)
C7_RemoveAbsentIsNoOp ==
    /\ last.op = "remove_data_source"
    /\ \A i \in DOMAIN TablesOf(Before) : TablesOf(Before)[i].identifier # last.arg[1]
    => /\ last.raised = ""
       /\ last.sent # NoRequest
       /\ sort_serialized_space(Submitted) = sort_serialized_space(Before)

RemoveOps == {"remove_data_source", "test_remove_accounts", "demo_remove_payments"}

(***************************************************************************)
(* C8.  After remove_data_source(space, X) a GET returns the fetched       *)
(* tables without those whose identifier is X, the others in the order     *)
(* they had: none with X is left and the length drops by the number of     *)
(* entries that had X.  The same holds of the removal steps of demo.py and *)
(* of run_tests.py, the latter up to the sort update_space adds.           *)
(***************************************************************************)
C8_RemoveExactlyTheMatching ==
    last.sent # NoRequest /\ last.op \in RemoveOps =>
        LET X == last.arg[1]
            old == TablesOf(Before)
            new == TablesOf(Refetched)
            Other(t) == t.identifier # X
        IN /\ IF last.op = "test_remove_accounts"
              THEN new = sorted_by_identifier(SelectSeq(old, Other))
              ELSE new = SelectSeq(old, Other)
           /\ \A i \in DOMAIN new : new[i].identifier # X
           /\ Len(new) = Len(old) - Cardinality({i \in DOMAIN old : old[i].identifier = X})

\* three tables, X once among them, two afterwards
C8_Witness ==
    /\ last.op = "remove_data_source"
    /\ last.arg = <<ACCOUNTS>>
    /\ Len(TablesOf(Before)) = 3
    /\ Cardinality({i \in 1..3 : TablesOf(Before)[i].identifier = ACCOUNTS}) = 1
    /\ Len(TablesOf(Refetched)) = 2

(***************************************************************************)
(* C9.  After an add (add_data_source on the tables, the tests' append of  *)
(* a measure followed by the sort) the submitted list is sorted ascending  *)
(* by its key and holds the fetched entries plus the new one, and a GET    *)
(* returns a list longer by one: b there, a added, gives [a, b].           *)
(***************************************************************************)
C9_AddAppendsThenSorts ==
    /\ last.sent # NoRequest /\ last.op \in {"add_data_source", "demo_readd_payments"} =>
          LET old == TablesOf(Before)
              new == TablesOf(Submitted)
          IN /\ IsSortedBy(new, "identifier")
             /\ SameEntries(new, Append(old, [identifier |-> last.arg[1]]))
             /\ Len(TablesOf(Refetched)) = Len(old) + 1
    /\ last.sent # NoRequest /\ last.op \in {"test_append_measure", "demo_add_measure"} =>
          LET old == MeasuresOf(Before)
              new == MeasuresOf(Submitted)
          IN /\ IsSortedBy(new, "id")
             /\ \E i \in DOMAIN new :
                   /\ new[i].id = last.arg[1]
                   /\ SameEntries(new, Append(old, new[i]))
             /\ Len(MeasuresOf(Refetched)) = Len(old) + 1

\* the measure with id 2 is there, the one with id 1 is added: [1, 2]
C9_Witness ==
    /\ last.op = "test_append_measure"
    /\ last.sent # NoRequest
    /\ Len(MeasuresOf(Before)) = 1
    /\ MeasuresOf(Before)[1].id = 2
    /\ last.arg = <<1>>
    /\ MeasuresOf(Refetched)[1].id = 1
    /\ MeasuresOf(Refetched)[2] = MeasuresOf(Before)[1]

(***************************************************************************)
(* C10.  After replace_all_data_sources(space, ids), or the test's         *)
(* assignment of a new tables list followed by update_space, a GET returns *)
(* as tables exactly one {identifier} entry per element of ids, sorted     *)
(* ascending by identifier, and nothing of the previous list.              *)
(***************************************************************************)
C10_ReplaceWholesale ==
    /\ last.op = "replace_all_data_sources" =>
          LET ids == last.arg
              new == TablesOf(Refetched)
          IN /\ Len(new) = Len(ids)
             /\ IsSortedBy(new, "identifier")
             /\ \A i \in DOMAIN new : DOMAIN new[i] = {"identifier"}
             /\ \A a \in TableIdentifiers :
                   Cardinality({i \in DOMAIN new : new[i].identifier = a})
                       = Cardinality({i \in DOMAIN ids : ids[i] = a})
    /\ last.op = "test_replace_tables" /\ last.sent # NoRequest =>
          TablesOf(Refetched) = <<[identifier |-> ACCOUNTS], [identifier |-> INVOICES]>>

\* three tables, one with column_configs, give way to [accounts, payments]
C10_Witness ==
    /\ last.op = "replace_all_data_sources"
    /\ last.arg = <<PAYMENTS, ACCOUNTS>>
    /\ Len(TablesOf(Before)) = 3
    /\ \E i \in 1..3 : Has(TablesOf(Before)[i], "column_configs")
    /\ TablesOf(Refetched) = <<[identifier |-> ACCOUNTS], [identifier |-> PAYMENTS]>>

(***************************************************************************)
(* C11.  As claimed: add_data_source, remove_data_source,                  *)
(* replace_all_data_sources or attach_metric_view_to_space run a second    *)
(* time in a row with the same arguments leaves the stored document as the *)
(* first run left it.                                                      *)
(***************************************************************************)
C11_AllIdempotent ==
    /\ last.again
    /\ last.op \in {"add_data_source", "remove_data_source",
                    "replace_all_data_sources", "attach_metric_view_to_space"}
    => Refetched = Before

(***************************************************************************)
(* C11, amended.  The second run of remove_data_source or                  *)
(* replace_all_data_sources with the same arguments sends its PATCH and    *)
(* leaves the stored document as the first run left it; the second run of  *)
(* add_data_source or attach_metric_view_to_space appends its entry once   *)
(* more, so the list it targets is longer by one than after the first run. *)
(***************************************************************************)
C11_RemoveReplaceIdempotent ==
    last.again =>
        /\ last.op \in {"remove_data_source", "replace_all_data_sources"} =>
              last.sent # NoRequest /\ Refetched = Before
        /\ last.op = "add_data_source" =>
              /\ Len(TablesOf(Refetched)) = Len(TablesOf(Before)) + 1
              /\ Count(TablesOf(Refetched), [identifier |-> last.arg[1]]) >= 2
        /\ last.op = "attach_metric_view_to_space" =>
              /\ Len(MetricViewsOf(Refetched)) = Len(MetricViewsOf(Before)) + 1
              /\ Count(MetricViewsOf(Refetched), [identifier |-> MV_INVOICE]) >= 2

\* accounts removed from [accounts, invoices, payments], then removed again
C11_Witness ==
    /\ last.again
    /\ last.op = "remove_data_source"
    /\ last.arg = <<ACCOUNTS>>
    /\ last.sent # NoRequest
    /\ TablesOf(Before) = <<[identifier |-> INVOICES], [identifier |-> PAYMENTS]>>
    /\ Refetched = Before

\* the operations that add an entry, with the list each adds to
AddTarget ==
    [add_data_source |-> <<"data_sources", "tables">>,
     demo_readd_payments |-> <<"data_sources", "tables">>,
     attach_metric_view_to_space |-> <<"data_sources", "metric_views">>,
     test_attach_metric_view |-> <<"data_sources", "metric_views">>,
     test_append_measure |-> <<"instructions", "sql_snippets", "measures">>,
     demo_add_measure |-> <<"instructions", "sql_snippets", "measures">>]

\* how many entries of tables carry the identifier
CountIdentifier(tables, table_identifier) ==
    Cardinality({i \in DOMAIN tables : tables[i].identifier = table_identifier})

(***************************************************************************)
(* C12.  No add deduplicates: add_data_source with an identifier the       *)
(* fetched tables already hold submits a list with that identifier one     *)
(* more time, and every add submits a list one longer in which each        *)
(* fetched entry occurs at least as often as it did.                       *)
(***************************************************************************)
C12_NoDeduplication ==
    last.sent # NoRequest /\ last.op \in DOMAIN AddTarget =>
        LET old == At(Before, AddTarget[last.op])
            new == At(Submitted, AddTarget[last.op])
        IN /\ Len(new) = Len(old) + 1
           /\ \A i \in DOMAIN old : Count(new, old[i]) >= Count(old, old[i])
           /\ last.op = "add_data_source" =>
                 CountIdentifier(new, last.arg[1]) = CountIdentifier(old, last.arg[1]) + 1

\* invoices is there, with column_configs, and is added once more
C12_Witness ==
    /\ last.op = "add_data_source"
    /\ last.arg = <<INVOICES>>
    /\ \E i \in DOMAIN TablesOf(Before) :
          /\ TablesOf(Before)[i].identifier = INVOICES
          /\ Has(TablesOf(Before)[i], "column_configs")
    /\ CountIdentifier(TablesOf(Before), INVOICES) = 1
    /\ CountIdentifier(TablesOf(Submitted), INVOICES) = 2

\* the document of the PATCH a client sent
SentBy(c) == loads(callers[c].json_data[1].serialized_space)

\* the list a call writes and, for replace_all_data_sources, the branch
WrittenPath(op) ==
    CASE op = "replace_all_data_sources" -> <<"data_sources">>
      [] op = "update_context" -> <<"instructions", "text_instructions">>
      [] OTHER -> TargetList[op]

\* the store changed between the client's GET and its PATCH
Stale(c) == callers[c].overwrote # << >> /\ callers[c].overwrote # callers[c].fetched

(***************************************************************************)
(* C13.  Last writer wins: the PATCH of a client carries only the          *)
(* serialized_space string, made of the document that client fetched, and  *)
(* once it is accepted the store holds exactly that document, also when    *)
(* another client's PATCH landed after the GET; nothing of the document    *)
(* the PATCH overwrote is consulted.                                       *)
(***************************************************************************)
C13_LastWriterWins ==
    \A c \in Callers :
        LET r == callers[c]
        IN /\ r.json_data # << >> =>
                 /\ DOMAIN r.json_data[1] = {"serialized_space"}
                 /\ SameOffPath(r.fetched[1], SentBy(c), WrittenPath(r.op))
                 /\ r.op = "add_data_source" =>
                       SentBy(c) = add_data_source_config(r.fetched[1], r.arg[1])
                 /\ r.op = "remove_data_source" =>
                       SentBy(c) = remove_data_source_config(r.fetched[1], r.arg[1])
           /\ r.latest => Refetched = SentBy(c)

\* the second client added payments and returned; the first, which had
\* fetched before that, adds accounts and returns: payments is gone
C13_Witness ==
    LET first == callers["first"]
        second == callers["second"]
    IN /\ first.op = "add_data_source" /\ first.arg = <<ACCOUNTS>>
       /\ second.op = "add_data_source" /\ second.arg = <<PAYMENTS>>
       /\ first.result = "returned" /\ second.result = "returned"
       /\ first.latest /\ Stale("first")
       /\ CountIdentifier(TablesOf(first.overwrote[1]), PAYMENTS) = 1
       /\ CountIdentifier(TablesOf(Refetched), PAYMENTS) = 0
       /\ CountIdentifier(TablesOf(Refetched), ACCOUNTS) = 1

(***************************************************************************)
(* C14.  No silent recovery: a request that fails is the last request of   *)
(* its function, which raises to its caller: after a failed GET no PATCH   *)
(* is sent, after a failed PATCH nothing is sent, and no request is sent   *)
(* twice.                                                                  *)
(***************************************************************************)
Failed(q) == q.status \notin {"sent", "200"}

C14_NoSilentRecovery ==
    \A c \in Callers :
        LET r == callers[c]
            q == r.requests
        IN /\ \A i \in DOMAIN q :
                 Failed(q[i]) => /\ i = Len(q)
                                 /\ r.pc = "idle"
                                 /\ r.result \in {"HTTPError", "ConnectionError"}
           /\ \A i, j \in DOMAIN q : q[i].method = q[j].method => i = j
           /\ (q # << >> /\ Failed(q[1])) => r.json_data = << >>

\* one client's GET found no space, the other's PATCH was refused
C14_Witness ==
    /\ callers["first"].requests
          = <<[method |-> "GET", space_id |-> SPACE_B, status |-> "404"]>>
    /\ callers["first"].result = "HTTPError"
    /\ callers["second"].requests
          = <<[method |-> "GET", space_id |-> SPACE_A, status |-> "200"],
              [method |-> "PATCH", space_id |-> SPACE_A, status |-> "400"]>>
    /\ callers["second"].result = "HTTPError"

(***************************************************************************)
(* C15.  All or nothing: the store changes only when it takes the one      *)
(* PATCH of a call, and then its document becomes the whole document that  *)
(* PATCH carries, every top-level key of the fetched document in it; a     *)
(* call that fails leaves the store as it was or with the whole submitted  *)
(* document, never with a mixture.                                         *)
(***************************************************************************)
C15_AllOrNothing ==
    [][store' # store =>
          \E c \in Callers :
              LET r == callers[c]
              IN /\ r.pc = "PATCH"
                 /\ callers'[c].pc = "idle"
                 /\ Cardinality({i \in DOMAIN r.requests :
                                    r.requests[i].method = "PATCH"}) = 1
                 /\ DOMAIN r.fetched[1] \subseteq DOMAIN SentBy(c)
                 /\ store' = <<Put(store[1], "serialized_space",
                                   r.json_data[1].serialized_space)>>
                 /\ loads(store'[1].serialized_space) = SentBy(c)]_vars

\* a PATCH that failed although the store took it, and a refused one that
\* left the store alone
C15_Witness ==
    /\ callers["first"].result = "ConnectionError"
    /\ callers["first"].latest
    /\ Refetched = SentBy("first")
    /\ Refetched # callers["first"].overwrote[1]
    /\ callers["second"].result = "HTTPError"
    /\ callers["second"].json_data # << >>
    /\ SentBy("second") # Refetched

(***************************************************************************)
(* C16.  Fetch, then submit: a call sends one GET and, once its response   *)
(* is there, one PATCH to the same space; a client never waits for two     *)
(* requests at once, and a call that returns has sent exactly the two.     *)
(***************************************************************************)
C16_FetchThenSubmit ==
    \A c \in Callers :
        LET r == callers[c]
            q == r.requests
        IN /\ Len(q) <= 2
           /\ Cardinality({i \in DOMAIN q : q[i].status = "sent"}) <= 1
           /\ (r.pc \in {"GET", "PATCH"}) = (q # << >> /\ q[Len(q)].status = "sent")
           /\ q # << >> => q[1].method = "GET"
           /\ Len(q) = 2 => /\ q[2].method = "PATCH"
                            /\ q[1].status = "200"
                            /\ q[2].space_id = q[1].space_id
           /\ r.result = "returned" => Len(q) = 2 /\ q[2].status = "200"

\* update_space_measures returned: GET 200, then PATCH 200, same space
C16_Witness ==
    \E c \in Callers :
        /\ callers[c].op = "update_space_measures"
        /\ callers[c].result = "returned"
        /\ callers[c].requests
              = <<[method |-> "GET", space_id |-> SPACE_A, status |-> "200"],
                  [method |-> "PATCH", space_id |-> SPACE_A, status |-> "200"]>>

\* a JSON text: a string of tokens, the text of an object between its braces
TokenKinds == {"{", "}", "[", "]", ":", ",", "string", "number", "true", "false"}

IsJsonObjectText(text) ==
    /\ text \in Seq([t : TokenKinds, v : Seq(STRING)])
    /\ Len(text) >= 2
    /\ text[1].t = "{"
    /\ text[Len(text)].t = "}"

(***************************************************************************)
(* C17.  Every POST and PATCH carries the document as one JSON text in     *)
(* serialized_space, the text json.dumps gives for the document the        *)
(* operation built; the document an operation works on is the decoding of  *)
(* the text the store held; decoding the text sent gives back the document *)
(* that was encoded, and so does a GET after the write: get_context after  *)
(* update_context(d) returns d.                                            *)
(***************************************************************************)
C17_DoubleEncodingRoundTrip ==
    [][/\ last'.fetched # << >> =>
              last'.fetched[1] = loads(store[1].serialized_space)
       /\ last'.sent # NoRequest =>
              LET d == last'.encoded[1]
                  text == last'.sent[1].serialized_space
                  returned == loads(store'[1].serialized_space)
              IN /\ IsJsonObjectText(text)
                 /\ text = dumps(d)
                 /\ store'[1].serialized_space = text
                 /\ returned = d
                 /\ last'.op = "update_context" =>
                       returned = AppendContent(last'.fetched[1], ADDITIONAL_RULE)]_vars

\* update_context wrote a document with an empty tables list, a number, two
\* booleans and the appended rule, and a GET returns that document
C17_Witness ==
    /\ last.op = "update_context"
    /\ last.sent # NoRequest
    /\ Refetched = last.encoded[1]
    /\ Refetched # Before
    /\ Has(Refetched, "data_sources")
    /\ TablesOf(Refetched) = << >>
    /\ Refetched.version = 2
    /\ Len(last.sent[1].serialized_space) > 20

\* the lists whose entries carry an id or an identifier
IdLists ==
    SortKeyTable \cup {[path |-> <<"data_sources", "metric_views">>, key |-> "identifier"]}

\* the operation builds the list at the path anew
Replaced(op, path) ==
    \/ op \in {"replace_all_data_sources", "test_replace_tables"}
          /\ path = <<"data_sources", "tables">>
    \/ op = "update_space_measures" /\ path = <<"instructions", "sql_snippets", "measures">>

\* e is the entry the operation appends to the list at the path
Added(op, arg, path, e, old) ==
    \/ /\ op \in {"add_data_source", "demo_readd_payments"}
       /\ path = <<"data_sources", "tables">>
       /\ e = [identifier |-> arg[1]]
    \/ /\ op \in {"attach_metric_view_to_space", "test_attach_metric_view"}
       /\ path = <<"data_sources", "metric_views">>
       /\ e = [identifier |-> MV_INVOICE]
    \/ /\ op \in {"test_append_measure", "demo_add_measure"}
       /\ path = <<"instructions", "sql_snippets", "measures">>
       /\ IdKey(e) = arg[1]
       /\ \A i \in DOMAIN old : IdKey(old[i]) # arg[1]

\* the line each context update appends
ContentLine ==
    [update_context |-> ADDITIONAL_RULE, test_append_content |-> FISCAL_YEAR,
     demo_append_context |-> OVERDUE_RULE]

\* e is the fetched entry f with the line appended to its content: every
\* other key of f, its id among them, is in e with the same value
ContentAppended(op, path, e, f) ==
    /\ op \in DOMAIN ContentLine
    /\ path = <<"instructions", "text_instructions">>
    /\ Has(f, "content")
    /\ DOMAIN e = DOMAIN f
    /\ \A k \in DOMAIN f \ {"content"} : e[k] = f[k]
    /\ e.content = Append(f.content, ContentLine[op])

(***************************************************************************)
(* C18.  In every update, in every list of entries with an id or an        *)
(* identifier that the operation does not build anew, each entry submitted *)
(* is an entry of the fetched list with every key, the id among them, as   *)
(* fetched, or the entry the operation appends, or (in a context update)   *)
(* the fetched text instruction with the same id and one more line of      *)
(* content: no entry that stays changes its id.                            *)
(***************************************************************************)
C18_IdentifiersNeverMutated ==
    last.sent # NoRequest /\ last.fetched # << >> =>
        LET before == Before
            after == Submitted
        IN \A row \in IdLists :
              ~Replaced(last.op, row.path) =>
                 LET old == At(before, row.path)
                     new == At(after, row.path)
                 IN \A j \in DOMAIN new :
                       \/ Count(new, new[j]) <= Count(old, new[j])
                       \/ Added(last.op, last.arg, row.path, new[j], old)
                       \/ \E i \in DOMAIN old :
                             ContentAppended(last.op, row.path, new[j], old[i])

\* the text instruction with id 2 got a line, the one with id 1 is as fetched,
\* and the tables kept their identifiers
C18_Witness ==
    /\ last.op = "demo_append_context"
    /\ last.sent # NoRequest
    /\ LET old == At(Before, <<"instructions", "text_instructions">>)
           new == At(Submitted, <<"instructions", "text_instructions">>)
       IN /\ Len(old) = 2 /\ Len(new) = 2
          /\ old[1].id = 2 /\ new[1].id = 2
          /\ new[1].content = Append(old[1].content, OVERDUE_RULE)
          /\ new[2] = old[2]
    /\ TablesOf(Submitted) = <<[identifier |-> PAYMENTS], [identifier |-> ACCOUNTS]>>

\* the functions that grant one principal one level, with the key each uses
AddPermissionKey ==
    [add_user_permission |-> "user_name",
     add_group_permission |-> "group_name",
     add_service_principal_permission |-> "service_principal_name"]

\* the principals of a list with the levels each holds, whatever the shape
\* of the entries: permission_level on the entry, or under all_permissions
GrantsOfRequest(access_control_list) ==
    {<<PrincipalOf(access_control_list[i]), access_control_list[i].permission_level>> :
        i \in DOMAIN access_control_list}

\* no two entries of the list name the same principal
NamedOnce(access_control_list) ==
    \A i, j \in DOMAIN access_control_list :
        PrincipalOf(access_control_list[i]) = PrincipalOf(access_control_list[j]) => i = j

GrantsOfAcl(acl) ==
    UNION {{<<PrincipalOf(acl[i]), acl[i].all_permissions[j].permission_level>> :
                j \in DOMAIN acl[i].all_permissions} : i \in DOMAIN acl}

(***************************************************************************)
(* C19.  add_user_permission, add_group_permission and                     *)
(* add_service_principal_permission each send one request, a PATCH whose   *)
(* access_control_list has one entry: the principal under the key of its   *)
(* kind and permission_level beside it, nothing nested.  Afterwards the    *)
(* principal holds the level, every principal listed before is still       *)
(* listed, and the entries of the other principals are as they were.       *)
(* replace_all_permissions sends one request, a PUT with the list given,   *)
(* and afterwards the principals listed are those of the list given, each  *)
(* with levels the list gives it and no others: with all the levels, when  *)
(* the list names no principal twice.                                      *)
(***************************************************************************)
C19_GrantsAdditiveReplaceTotal ==
    LET call == permissions
        old == permissions.before
        new == permissions.acl
    IN /\ call.op \in DOMAIN AddPermissionKey =>
             LET key == AddPermissionKey[call.op]
                 principal == <<key, call.arg[1]>>
                 list == call.requests[1].json_data.access_control_list
             IN /\ Len(call.requests) = 1
                /\ call.requests[1].method = "PATCH"
                /\ DOMAIN call.requests[1].json_data = {"access_control_list"}
                /\ Len(list) = 1
                /\ DOMAIN list[1] = {key, "permission_level"}
                /\ list[1][key] = call.arg[1]
                /\ list[1].permission_level = call.arg[2]
                /\ call.arg[2] \in LevelsOf(new, principal)
                /\ \A i \in DOMAIN old :
                      IF PrincipalOf(old[i]) = principal
                      THEN \E j \in DOMAIN new : PrincipalOf(new[j]) = principal
                      ELSE \E j \in DOMAIN new : new[j] = old[i]
       /\ call.op = "replace_all_permissions" =>
             /\ Len(call.requests) = 1
             /\ call.requests[1].method = "PUT"
             /\ call.requests[1].json_data = [access_control_list |-> call.arg]
             /\ GrantsOfAcl(new) \subseteq GrantsOfRequest(call.arg)
             /\ {PrincipalOf(new[i]) : i \in DOMAIN new}
                    = {PrincipalOf(call.arg[i]) : i \in DOMAIN call.arg}
             /\ NamedOnce(call.arg) => GrantsOfAcl(new) = GrantsOfRequest(call.arg)

\* the users group had CAN_RUN and the owner CAN_MANAGE; CAN_EDIT is granted
\* to the service principal and all three are listed
C19_Witness ==
    /\ permissions.op = "add_service_principal_permission"
    /\ permissions.arg = <<"genie-automation", "CAN_EDIT">>
    /\ Len(permissions.before) = 2
    /\ Len(permissions.acl) = 3
    /\ LevelsOf(permissions.acl, <<"group_name", "users">>) = {"CAN_RUN"}
    /\ LevelsOf(permissions.acl, <<"user_name", "owner@company.com">>) = {"CAN_MANAGE"}
    /\ LevelsOf(permissions.acl, <<"service_principal_name", "genie-automation">>)
           = {"CAN_EDIT"}

\* config.get("instructions", {}).get("text_instructions", [])
TextInstructionsOf(config) == Get(InstructionsOf(config), "text_instructions", << >>)

(***************************************************************************)
(* C20.  From an empty store: the document of every POST has exactly one   *)
(* text_instructions entry; every PATCH submits as many text_instructions  *)
(* entries as its GET fetched, so a GET always returns exactly one; a      *)
(* context update (04_context __main__, test_04_context, demo step 6)      *)
(* appends its line to the content of entry 0, and a GET after it returns  *)
(* one entry, with the id it had, whose content is the fetched content     *)
(* followed by the line.                                                   *)
(***************************************************************************)
C20_SingleTextInstruction ==
    /\ last.method = "POST" => Len(TextInstructionsOf(last.encoded[1])) = 1
    /\ last.method = "PATCH" =>
          Len(TextInstructionsOf(Submitted)) = Len(TextInstructionsOf(Before))
    /\ store # << >> =>
          LET new == TextInstructionsOf(Refetched)
          IN /\ Len(new) = 1
             /\ last.op \in DOMAIN ContentLine /\ last.sent # NoRequest =>
                   LET old == TextInstructionsOf(Before)
                   IN /\ new[1].content = Append(old[1].content, ContentLine[last.op])
                      /\ \E k \in DOMAIN new[1].content :
                            new[1].content[k] = ContentLine[last.op]
                      /\ new[1].id = old[1].id

\* the test appended its line to the one text instruction of the test space,
\* after another update of the space
C20_Witness ==
    /\ last.op = "test_append_content"
    /\ last.sent # NoRequest
    /\ writes = 3
    /\ Len(TextInstructionsOf(Before)) = 1
    /\ Len(TextInstructionsOf(Refetched)) = 1
    /\ TextInstructionsOf(Refetched)[1].content = <<"Test space.", FISCAL_YEAR>>

(***************************************************************************)
(* C23: after a successful init_from_cli() the module-level HOST, TOKEN    *)
(* and WAREHOUSE_ID are all three the values of the CLI profile, and every *)
(* request api_request and execute_sql send afterwards goes to the         *)
(* profile's host, with the profile's token and, for a statement that      *)
(* names no warehouse, the profile's warehouse.                            *)
(***************************************************************************)
C23_InitFromCliSetsAllThree ==
    globals.profile # << >> =>
        LET profile == globals.profile[1]
        IN /\ globals.HOST = profile.host
           /\ globals.TOKEN = profile.access_token
           /\ globals.WAREHOUSE_ID = profile.warehouse_id
           /\ \A i \in (globals.since + 1)..Len(globals.requests) :
                 LET r == globals.requests[i]
                 IN /\ r.url[1] = profile.host
                    /\ r.headers.Authorization[2] = profile.access_token
                    /\ (Has(r.json, "warehouse_id")
                        /\ r.json.warehouse_id # "cd3b290bff658fa3")
                          => r.json.warehouse_id = profile.warehouse_id

(***************************************************************************)
(* C30.  Sorting only reorders: each list that sort_serialized_space       *)
(* sorts, and each list handed to _sorted_by_id or sorted_by_id, comes     *)
(* back as a permutation of itself (the same entries, each as often and    *)
(* each whole), and the entries of one key come back in the order they     *)
(* went in.                                                                *)
(***************************************************************************)
\* the entries of s whose key is k, in the order of s
RECURSIVE WithKey(_, _, _)
WithKey(s, field, k) ==
    IF s = << >> THEN << >>
    ELSE IF KeyOf(Head(s), field) = k
         THEN <<Head(s)>> \o WithKey(Tail(s), field, k)
         ELSE WithKey(Tail(s), field, k)

StablePermutation(s, t, field) ==
    /\ SameEntries(s, t)
    /\ \A k \in 0..MaxId : WithKey(s, field, k) = WithKey(t, field, k)

C30_NormalizeOnlyReorders ==
    last.passed # << >> =>
        \A row \in SortKeyTable :
            LET items == At(Passed, row.path)
            IN /\ StablePermutation(items, At(Submitted, row.path), row.key)
               /\ row.key = "id" =>
                     StablePermutation(items, sorted_by_id(items), "id")

\* three measures went in, the two of id 1 behind the one of id 2, and came
\* back with the two of id 1 in front, in the order they had
C30_Witness ==
    /\ last.passed # << >>
    /\ Len(MeasuresOf(Passed)) = 3
    /\ MeasuresOf(Passed)[1].id = 2
    /\ MeasuresOf(Passed)[2].id = 1
    /\ MeasuresOf(Passed)[3].id = 1
    /\ MeasuresOf(Passed)[2] # MeasuresOf(Passed)[3]
    /\ MeasuresOf(Submitted) =
          <<MeasuresOf(Passed)[2], MeasuresOf(Passed)[3], MeasuresOf(Passed)[1]>>

(***************************************************************************)
(* C25.  05_cleanup.py sends a DELETE only for a space of the listing      *)
(* whose title holds one of the test keywords, whatever the case of the    *)
(* letters, and only after the user typed y (spaces around it and capital  *)
(* Y allowed); after any other answer, and when no title matches, it       *)
(* sends no DELETE.                                                        *)
(***************************************************************************)
\* the titles of Titles a reader finds a keyword in, and the answers that read y
TestTitles == {"Test Metrics Space", "TEST CONTEXT SPACE (copy)", "My genie api demo"}

Yes == {"y", "Y", " y\n"}

Deletes == {i \in DOMAIN script.requests : script.requests[i].method = "DELETE"}

C25_DeleteOnlyConfirmedTestSpaces ==
    \A i \in Deletes :
        /\ \E k \in DOMAIN script.spaces :
              /\ script.spaces[k].space_id = script.requests[i].path
              /\ script.spaces[k].title \in TestTitles
        /\ script.answer # << >>
        /\ script.answer[1] \in Yes
        /\ script.requests[1].method = "GET"

\* the second space of the listing is deleted, the first is not a test space,
\* and the user typed " y" and a newline
C25_Witness ==
    /\ Len(script.spaces) = 2
    /\ script.spaces[1].title = "Metrics Space"
    /\ script.spaces[2].title = "TEST CONTEXT SPACE (copy)"
    /\ script.answer = <<" y\n">>
    /\ Deletes # {}
    /\ \A i \in Deletes : script.requests[i].path = "s2"

(***************************************************************************)
(* C29.  drop_test_tables takes invoices, payments, accounts, mv_invoice   *)
(* in this order; for each it sends DROP TABLE IF EXISTS first and DROP    *)
(* VIEW IF EXISTS only when the DROP TABLE did not come back SUCCEEDED;    *)
(* when it returns, it returns one (object, state) pair per object, the    *)
(* state that of the last statement run for the object.                    *)
(***************************************************************************)
RECURSIVE Statements(_)
Statements(requests) ==
    IF requests = << >> THEN << >>
    ELSE (IF Head(requests).method = "POST" THEN <<Head(requests)>> ELSE << >>)
            \o Statements(Tail(requests))

ObjectIndex(obj) == CHOOSE k \in DOMAIN objects : objects[k] = obj

C29_DropTablesThenViews ==
    LET st == Statements(script.requests)
        of(k) == {i \in DOMAIN st : st[i].obj = objects[k]}
        final(k) == CHOOSE i \in of(k) : \A j \in of(k) : j <= i
    IN /\ \A i \in DOMAIN st :
             IF st[i].path = "DROP TABLE IF EXISTS"
             THEN /\ ObjectIndex(st[i].obj) = Cardinality({j \in 1..i :
                                                  st[j].path = "DROP TABLE IF EXISTS"})
                  /\ \A j \in 1..(i - 1) : st[j].obj # st[i].obj
             ELSE /\ i > 1
                  /\ st[i - 1].path = "DROP TABLE IF EXISTS"
                  /\ st[i - 1].obj = st[i].obj
                  /\ st[i - 1].state # "SUCCEEDED"
       /\ (script.pc = "done" /\ "--tables" \in script.argv) =>
             /\ Len(script.results) = Len(objects)
             /\ \A k \in DOMAIN objects :
                   /\ script.results[k][1] = objects[k]
                   /\ of(k) # {}
                   /\ script.results[k][2] = st[final(k)].state

\* returned: invoices dropped as a table, payments neither way, mv_invoice as
\* a view after its DROP TABLE failed
C29_Witness ==
    /\ script.pc = "done"
    /\ script.results = <<<<INVOICES, "SUCCEEDED">>, <<PAYMENTS, "FAILED">>,
                          <<ACCOUNTS, "">>, <<MV_INVOICE, "SUCCEEDED">>>>
    /\ Len(Statements(script.requests)) = 7

(***************************************************************************)
(* The requests of a script, as the properties read them.                  *)
(***************************************************************************)
StatementRequests ==
    {i \in DOMAIN script.requests :
        script.requests[i].path = "/api/2.0/sql/statements/"}

\* the POSTs and PATCHes that carry a serialized_space
DocumentRequests ==
    {i \in DOMAIN script.requests :
        /\ script.requests[i].method \in {"POST", "PATCH"}
        /\ script.requests[i].path \in {"/api/2.0/genie/spaces",
                                        "/api/2.0/genie/spaces/{space_id}"}}

Writes(space) ==
    {i \in DOMAIN script.requests :
        /\ script.requests[i].method \in {"POST", "PATCH", "DELETE"}
        /\ script.requests[i].space = space}

\* the state the create-metric-view statement of request i returned
ReturnedState(i) == StateOf(script.requests[i].json[2])

NamesTheView(i) ==
    LET views == MetricViewsOf(script.requests[i].json[1])
    IN \E k \in DOMAIN views : views[k].identifier = MV_INVOICE

(***************************************************************************)
(* C21.  demo.create_metric_view never raises: whatever the statement      *)
(* request comes to (a statement state, an error status, a body that is    *)
(* no JSON, no connection) it returns a dict, and when the body of the     *)
(* response is no JSON the dict has status.state FAILED.                   *)
(***************************************************************************)
C21_CreateMetricViewNeverRaises ==
    script.program = "demo" =>
        \A i \in StatementRequests :
            LET resp == script.requests[i].json[1]
            IN /\ script.requests[i].raised = ""
               /\ resp.json = << >> => ReturnedState(i) = "FAILED"

(***************************************************************************)
(* C22.  A document that names mv_invoice under data_sources.metric_views  *)
(* is submitted only after the create-metric-view statement before it      *)
(* returned the state SUCCEEDED.  After any other state the __main__ of    *)
(* 01_metrics.py sends nothing more, test_01_metrics sends nothing more to *)
(* its space, and demo.main creates Space B with its tables only.          *)
(***************************************************************************)
C22_ViewReferencedOnlyAfterDDLSucceeded ==
    /\ \A i \in DocumentRequests :
          NamesTheView(i) =>
              /\ \E j \in StatementRequests : j < i
              /\ LET j == CHOOSE j \in StatementRequests :
                             j < i /\ \A k \in StatementRequests : k < i => k <= j
                 IN script.requests[j].raised = "" /\ ReturnedState(j) = "SUCCEEDED"
    /\ \A j \in StatementRequests :
          (script.requests[j].raised = "" /\ ReturnedState(j) # "SUCCEEDED") =>
              /\ script.program = "01_metrics" => Len(script.requests) = j
              /\ script.program = "run_tests" =>
                    \A i \in (j + 1)..Len(script.requests) :
                        script.requests[i].space = script.requests[1].space
                           => script.requests[i].method = "DELETE"
              /\ (script.program = "demo" /\ Len(script.requests) > j) =>
                    /\ script.requests[j + 1].method = "POST"
                    /\ DOMAIN script.requests[j + 1].json[1].data_sources = {"tables"}

\* demo.main ran to its end: the statement succeeded and Space B was posted
\* with the metric view
C22_Witness ==
    /\ script.program = "demo"
    /\ script.phase = "done"
    /\ \E j \in StatementRequests :
          /\ ReturnedState(j) = "SUCCEEDED"
          /\ script.requests[j + 1].method = "POST"
          /\ NamesTheView(j + 1)

(***************************************************************************)
(* C26.  In demo.main and in the tests of run_tests.py, the document of    *)
(* each PATCH came from a GET of the same space, and between that GET and  *)
(* the PATCH the script sent no write to the space: no PATCH carries a     *)
(* copy that an earlier write of the script has made stale.                *)
(***************************************************************************)
C26_EveryPatchFresh ==
    script.program \in {"demo", "run_tests"} =>
        \A i \in DocumentRequests :
            LET q == script.requests[i]
            IN q.method = "PATCH" =>
                  /\ q.got \in 1..(i - 1)
                  /\ script.requests[q.got].method = "GET"
                  /\ script.requests[q.got].raised = ""
                  /\ script.requests[q.got].space = q.space
                  /\ Writes(q.space) \cap (q.got + 1)..(i - 1) = {}

\* demo.main ran to its end and sent its four PATCHes to Space A
C26_Witness ==
    /\ script.program = "demo"
    /\ script.phase = "done"
    /\ Cardinality({i \in DocumentRequests : script.requests[i].method = "PATCH"}) = 4

Names == <<"01_metrics", "02_data_sources", "03_permissions", "04_context">>

C28_RunnerRunsAllAndReports ==
    [][script.program = "run_tests" =>
          /\ Len(script'.results) \in {Len(script.results), Len(script.results) + 1}
          /\ \A i \in DOMAIN script'.results : script'.results[i][1] = Names[i]
          /\ script.phase = "run" =>
                /\ script.test = Len(script.results) + 1
                /\ script'.results # script.results =>
                      script.pc > 1 \/ script'.requests # script.requests
          /\ script'.phase = "run" => script'.test = Len(script'.results) + 1
          /\ script'.phase \in {"cleanup", "exited"} => Len(script'.results) = 4
          /\ script'.phase = "exited" =>
                /\ script'.exit \in {0, 1}
                /\ script'.exit = 0 <=>
                      \A i \in 1..4 : script'.results[i][2] = "PASS"]_vars

\* the four tests passed, a DELETE of the cleanup failed, the status is 0
C28_Witness ==
    /\ script.phase = "exited"
    /\ script.exit = 0
    /\ \E i \in DOMAIN script.requests :
          script.requests[i].method = "DELETE" /\ script.requests[i].raised # ""

=============================================================================
